---- MODULE Spec2Model ----
(***************************************************************************)
(* A model of the snowpylot query engine (src/src/snowpylot/query_engine.py *)
(* and manual_chunking.py): the query builder, the date chunking, the       *)
(* SnowPilotSession transport and the chunked, checkpointed download.       *)
(*                                                                          *)
(* The specifications of the module:                                        *)
(*   SpecQuery    - the pure functions (build_caaml_query, date chunking)   *)
(*   SpecSession  - SnowPilotSession: authenticate and _make_caaml_request *)
(*   SpecDownload - query_pits with chunk=True over a checkpoint file,     *)
(*                  with process kills and restarts                         *)
(*   SpecBuilder  - repeated build_caaml_query calls on one filter          *)
(*   SpecArchive  - _query_caaml over one downloaded archive                *)
(*   SpecGrain    - Grain.set_grainForm (src/layer.py)                      *)
(*   SpecParser   - caaml_parser (src/caaml_parser.py) over one document    *)
(*   SpecUser     - the user section of src/zz_old/zz_caaml_parser.py       *)
(*   SpecManual   - download_results, alone and under                       *)
(*                  download_chunks_with_delay, by the state codes given    *)
(*   SpecPagination - _query_caaml from its first download to the merged    *)
(*                  file list                                               *)
(*   SpecChunkLoop - the while loop of the chunk generators, pass by pass,  *)
(*                  under weak fairness of its steps                        *)
(*   SpecChunkRequests - the query requests of one chunk's retry loops      *)
(*   SpecMassive  - one chunk of massive_snowpit_download.py with its       *)
(*                  one-day fallback and the ProgressTracker                *)
(* Each one leaves the variables of the others at their initial values.     *)
(***************************************************************************)
EXTENDS Integers, Sequences, FiniteSets, TLC

VARIABLES
    \* ---- SpecQuery
    query_filter,       \* the QueryFilter handed to the builder / chunker
    query_string,       \* what build_caaml_query returned (or NotCalled)
    chunks,             \* what QueryEngine._generate_date_chunks returned
    manual_chunks,      \* what manual_chunking.generate_date_chunks returned
    q_done,             \* which of the three functions have been applied
    \* ---- SpecBuilder
    renderings,         \* the results of the build_caaml_query calls so far, in order
    filter_given,       \* the QueryFilter as it was before the first call
    \* ---- SpecArchive
    archive,            \* what the download of one _query_caaml call delivers
    apc,                \* position inside _query_caaml ("idle" before the call)
    caaml_files,        \* the file list handed to _parse_caaml_pits
    file_index,         \* index of the file the parse loop is at
    pits,               \* the local list `pits` of _parse_caaml_pits
    error_log,          \* the logger.error lines written by the call
    query_result,       \* the QueryResult the call builds and returns
    \* ---- SpecGrain
    grain,              \* one Grain object (src/layer.py)
    grain_history,      \* the codes passed to its set_grainForm so far, in order
    \* ---- SpecParser
    document,           \* the CAAML document handed to caaml_parser
    ppc,                \* position inside caaml_parser ("idle" before the call)
    pit,                \* the SnowPit the call is populating
    layer_index,        \* index of the layer the `for layer in layers` loop is at
    raised,             \* the exception that ended the call ("" while none)
    \* ---- SpecUser
    src_ref,            \* the elements under the document's srcRef block
    user,               \* pit.coreInfo.user, the User being filled
    upc,                \* position inside the user section of the parser
    user_raised,        \* the exception that ended the section ("" while none)
    \* ---- SpecManual
    entry,              \* the function the caller invoked
    base_query_filter,  \* its QueryFilter (state and states)
    total_chunks,       \* len(chunks) of download_chunks_with_delay
    mpc,                \* position inside the call ("idle" before it)
    chunk_i,            \* loop variable i of download_chunks_with_delay
    state_index,        \* index of the state the multi-state loops are at
    chunk_results,      \* chunk_results of download_chunks_with_delay
    delays_slept,       \* number of time.sleep(delay_between_chunks) calls
    unsupported_detected, \* build_caaml_query has raised its ValueError
    \* ---- SpecPagination
    page_filter,        \* the QueryFilter of one _query_caaml call
    fpc,                \* position inside _query_caaml ("idle" before the call)
    caaml_data,         \* what the first download_caaml_data returned
    extracted_files,    \* the files extracted from the first archive
    additional_files,   \* the files extracted from the follow-up archive
    all_extracted_files, \* the list handed on to _parse_caaml_pits
    queries_sent,       \* the query strings downloaded so far, in order
    \* ---- SpecSession
    authenticated,      \* SnowPilotSession.authenticated
    last_request_time,  \* SnowPilotSession.last_request_time
    now,                \* time.time(), in seconds
    env_credentials,    \* SNOWPILOT_USER and SNOWPILOT_PASSWORD are both set
    spc,                \* position inside _make_caaml_request ("idle" outside)
    attempt,            \* loop variable of _make_caaml_request
    max_retries_arg,    \* the max_retries argument of the running call
    request_result,     \* return value of the last finished _make_caaml_request
    auth_result,        \* <<return value>> of the last authenticate() call
    calls,              \* number of API calls made on the session so far
    http_last,          \* the most recent HTTP request [kind, at, enforced]
    http_prev,          \* the HTTP request before that one
    retry_sleeps,       \* delays slept after a 403 in the running call
    forbidden_count,    \* 403 responses received by the running call
    attempts_made,      \* attempts started by the running call
    query_response,     \* the local query_response of the running call
    \* ---- SpecDownload
    checkpoint,         \* contents of download_progress.json on disk
    progress,           \* the in-memory ProgressTracker of the running process
    dpc,                \* position inside query_pits/_download_chunked_dataset
    run_filter,         \* the QueryFilter of the retrieval (fixed over the runs)
    remaining_chunks,   \* remaining_chunks of the running call
    chunk_index,        \* index of the chunk being processed in remaining_chunks
    chunk_attempt,      \* loop variable of the per-chunk retry loop
    runs,               \* number of query_pits calls started so far
    loaded_completed,   \* completed_chunks as loaded at the start of this run
    queried,            \* chunk ids handed to _query_caaml during this run
    estimate_calls,     \* estimate_pit_count calls made during this run
    all_done_at_start,  \* the checkpoint held every chunk when this run started
    chunk_sleeps,       \* delays slept between the attempts of the current chunk
    chunk_failures,     \* attempts of the current chunk that failed or raised
    no_data_reported,   \* the server answered the latest chunk query "no data"
    corrupt_reported,   \* the latest chunk query downloaded an unreadable archive
    known_completed,    \* completed_chunks of the tracker, as the process last held it
    run_states,         \* the state code of each query_pits call so far, in order
    chunk_filter,       \* chunk_filter of the chunk being processed
    all_pits,           \* len(all_pits) of the running _download_chunked_dataset
    \* ---- SpecChunkLoop
    chunker,            \* which chunk generator runs: the engine's or the manual one
    loop_start,         \* start_date of the running chunk generator
    loop_end,           \* end_date of the running chunk generator
    loop_size,          \* chunk_size_days of the running chunk generator
    current_date,       \* current_date of the while loop, as a day number
    loop_chunks,        \* chunks appended so far
    lpc,                \* position of the chunk generator
    \* ---- SpecChunkRequests
    filter_max_retries, \* max_retries of the filter of the chunked download
    rpc,                \* position in the retry loops of one chunk
    retry_attempt,      \* attempt of the chunk loop in _download_chunked_dataset
    session_attempt,    \* attempt of the loop in _make_caaml_request
    query_requests,     \* CAAML query GETs issued for the chunk so far
    chunk_status,       \* status of the chunk's latest QueryResult
    \* ---- SpecMassive
    chunk_days,         \* days in the range of the chunk of the massive download
    xpc,                \* position of the massive download in the chunk
    day_index,          \* index of the next one-day fallback request
    day_statuses,       \* outcome of each one-day fallback request so far
    first_status,       \* outcome of the request for the whole chunk
    massive_progress    \* ProgressTracker.progress

qvars == <<query_filter, query_string, chunks, manual_chunks, q_done>>
svars == <<authenticated, last_request_time, now, env_credentials, spc, attempt,
           max_retries_arg, request_result, auth_result, calls, http_last,
           http_prev, retry_sleeps, forbidden_count, attempts_made,
           query_response>>
dvars == <<checkpoint, progress, dpc, run_filter, remaining_chunks, chunk_index,
           chunk_attempt, runs, loaded_completed, queried, estimate_calls,
           all_done_at_start, chunk_sleeps, chunk_failures, no_data_reported,
           corrupt_reported, known_completed, run_states,
           chunk_filter, all_pits>>
bvars == <<renderings, filter_given>>
avars == <<archive, apc, caaml_files, file_index, pits, error_log, query_result>>
gvars == <<grain, grain_history>>
pvars == <<document, ppc, pit, layer_index, raised>>
uvars == <<src_ref, user, upc, user_raised>>
mvars == <<entry, base_query_filter, total_chunks, mpc, chunk_i, state_index,
           chunk_results, delays_slept, unsupported_detected>>
fvars == <<page_filter, fpc, caaml_data, extracted_files, additional_files,
           all_extracted_files, queries_sent>>
lvars == <<chunker, loop_start, loop_end, loop_size, current_date, loop_chunks, lpc>>
rvars == <<filter_max_retries, rpc, retry_attempt, session_attempt, query_requests,
           chunk_status>>
xvars == <<chunk_days, xpc, day_index, day_statuses, first_status, massive_progress>>
vars == <<qvars, svars, dvars, bvars, avars, gvars, pvars, uvars, mvars, fvars,
          lvars, rvars, xvars>>

None == "None"

(***************************************************************************)
(* Dates.  A "YYYY-MM-DD" string is the triple <<year, month, day>>;        *)
(* datetime.strptime turns it into a day number of the proleptic Gregorian *)
(* calendar (datetime.toordinal), timedelta arithmetic is integer addition *)
(* on day numbers, and strftime turns a day number back into a triple.      *)
(***************************************************************************)
Years == 2023..2025

IsLeap(y) == (y % 4 = 0) /\ ((y % 100 # 0) \/ (y % 400 = 0))

DaysInMonth(y, m) ==
    IF m = 2 THEN (IF IsLeap(y) THEN 29 ELSE 28)
    ELSE IF m \in {4, 6, 9, 11} THEN 30 ELSE 31

DaysBeforeYear(y) ==
    LET p == y - 1 IN 365 * p + (p \div 4) - (p \div 100) + (p \div 400)

RECURSIVE DaysBeforeMonth(_, _)
DaysBeforeMonth(y, m) ==
    IF m = 1 THEN 0 ELSE DaysBeforeMonth(y, m - 1) + DaysInMonth(y, m - 1)

\* datetime.strptime(s, "%Y-%m-%d"), as a day number
strptime(s) == DaysBeforeYear(s[1]) + DaysBeforeMonth(s[1], s[2]) + s[3]

\* dt.strftime("%Y-%m-%d")
strftime(o) ==
    LET y == CHOOSE yy \in Years :
                 DaysBeforeYear(yy) < o /\ o <= DaysBeforeYear(yy + 1)
        r == o - DaysBeforeYear(y)
        m == CHOOSE mm \in 1..12 :
                 DaysBeforeMonth(y, mm) < r
                 /\ r <= DaysBeforeMonth(y, mm) + DaysInMonth(y, mm)
    IN <<y, m, r - DaysBeforeMonth(y, m)>>

\* dt + timedelta(days=n)
timedelta(o, n) == o + n

(***************************************************************************)
(* QueryBuilder                                                             *)
(***************************************************************************)
RESULTS_PER_PAGE == 1000
CHUNK_SIZE_DAYS == 7
DEFAULT_REQUEST_DELAY == 5

supported_states ==
    {"MT", "CO", "WY", "UT", "ID", "WA", "OR", "CA", "AK", "NH", "VT", "ME", "NY"}

\* Python's `x or ''` on a string field (None is the string "None")
OrEmpty(x) == IF x = None \/ x = "" THEN "" ELSE x

\* an unset date field, and the '' that `date or ''` renders for it
NoDate == <<>>

\* the same, rendering the day after the date
DateOrEmptyNextDay(d) ==
    IF d = NoDate THEN <<>> ELSE strftime(timedelta(strptime(d), 1))

DateOrEmpty(d) == IF d = NoDate THEN <<>> ELSE d

Min(a, b) == IF a < b THEN a ELSE b

\* the same without the check of the state code
build_caaml_query_any_state(f) ==
    [raised |-> None,
     params |->
       << <<"PIT_NAME", OrEmpty(f.pit_name)>>,
          <<"STATE", OrEmpty(f.state)>>,
          <<"OBS_DATE_MIN", DateOrEmpty(f.date_start)>>,
          <<"OBS_DATE_MAX", DateOrEmpty(f.date_end)>>,
          <<"recent_dates", 0>>,
          <<"USERNAME", OrEmpty(f.username)>>,
          <<"AFFIL", OrEmpty(f.organization_name)>>,
          <<"per_page", Min(f.per_page, RESULTS_PER_PAGE)>>,
          <<"ADV_WHERE_QUERY", "">>,
          <<"submit", "Get+Pits">> >>]

\* QueryBuilder.build_caaml_query: the "&"-joined list of KEY=value pairs, or
\* the ValueError raised for an unsupported state
build_caaml_query(f) ==
    IF f.state # None /\ f.state # "" /\ f.state \notin supported_states
    THEN [raised |-> "ValueError", state |-> f.state, supported |-> supported_states,
          params |-> <<>>]
    ELSE [raised |-> None,
          params |->
            << <<"PIT_NAME", OrEmpty(f.pit_name)>>,
               <<"STATE", OrEmpty(f.state)>>,
               <<"OBS_DATE_MIN", DateOrEmpty(f.date_start)>>,
               <<"OBS_DATE_MAX", DateOrEmpty(f.date_end)>>,
               <<"recent_dates", 0>>,
               <<"USERNAME", OrEmpty(f.username)>>,
               <<"AFFIL", OrEmpty(f.organization_name)>>,
               <<"per_page", Min(f.per_page, RESULTS_PER_PAGE)>>,
               <<"ADV_WHERE_QUERY", "">>,
               <<"submit", "Get+Pits">> >>]

\* the value a rendered query string carries for a key
Param(q, key) ==
    LET i == CHOOSE j \in 1..Len(q.params) : q.params[j][1] = key
    IN q.params[i][2]

(***************************************************************************)
(* Date chunking                                                            *)
(***************************************************************************)
\* the same with an off-by-one span: `timedelta(days=chunk_size_days)`
ChunkEndOffByOne(current, end, n) ==
    LET chunk_end == timedelta(current, n)
    IN IF chunk_end > end THEN end ELSE chunk_end

\* one pass of the while loop's body: the end of the chunk starting at current
ChunkEnd(current, end, n) ==
    LET chunk_end == timedelta(current, n - 1)
    IN IF chunk_end > end THEN end ELSE chunk_end

RECURSIVE ChunkLoop(_, _, _, _)
ChunkLoop(current, end, n, acc) ==
    IF current <= end
    THEN LET chunk_end == ChunkEnd(current, end, n)
         IN ChunkLoop(timedelta(chunk_end, 1), end, n,
                      Append(acc, <<strftime(current), strftime(chunk_end)>>))
    ELSE acc

\* QueryEngine._generate_date_chunks (chunk_size_days >= 1)
_generate_date_chunks(start_date, end_date, chunk_size_days) ==
    ChunkLoop(strptime(start_date), strptime(end_date), chunk_size_days, <<>>)

\* manual_chunking.generate_date_chunks (chunk_size_days >= 1)
generate_date_chunks(start_date, end_date, chunk_size_days) ==
    LET end_date_obj == strptime(end_date)
        F[current \in strptime(start_date)..(end_date_obj + 1)] ==
            IF current <= end_date_obj
            THEN LET chunk_end == ChunkEnd(current, end_date_obj, chunk_size_days)
                 IN <<<<strftime(current), strftime(chunk_end)>>>>
                        \o F[timedelta(chunk_end, 1)]
            ELSE <<>>
    IN IF strptime(start_date) <= end_date_obj THEN F[strptime(start_date)] ELSE <<>>

(***************************************************************************)
(* SpecQuery: the pure functions applied to bounded inputs                  *)
(***************************************************************************)
WindowRadius == 2
MaxChunkDays == 3

ValidDates ==
    {s \in Years \X (1..12) \X (1..31) : s[3] <= DaysInMonth(s[1], s[2])}

\* the days around a year's end and around a leap day
InputDates ==
    {s \in ValidDates :
        \E anchor \in {<<2023, 12, 31>>, <<2024, 2, 29>>} :
            /\ strptime(s) - strptime(anchor) <= WindowRadius
            /\ strptime(anchor) - strptime(s) <= WindowRadius}

QueryFilters ==
    [pit_name : {None},
     date_start : InputDates \cup {NoDate},
     date_end : InputDates \cup {NoDate},
     state : {None, "CO", "XX"},
     username : {None},
     organization_name : {None, "Bridger Bowl Ski Patrol"},
     per_page : {100, RESULTS_PER_PAGE},
     chunk_size_days : 1..MaxChunkDays]

NotCalled == [raised |-> "NotCalled", params |-> <<>>]

QueryInit ==
    /\ query_filter \in QueryFilters
    /\ query_string = NotCalled
    /\ chunks = <<>>
    /\ manual_chunks = <<>>
    /\ q_done = {}

BuildCaamlQuery ==
    /\ "build_caaml_query" \notin q_done
    /\ query_string' = build_caaml_query(query_filter)
    /\ q_done' = q_done \cup {"build_caaml_query"}
    /\ UNCHANGED <<query_filter, chunks, manual_chunks, svars, dvars, bvars, avars, gvars, pvars, uvars, mvars, fvars, lvars, rvars, xvars>>

HasDateRange(f) == f.date_start # NoDate /\ f.date_end # NoDate

GenerateDateChunks ==
    /\ "_generate_date_chunks" \notin q_done
    /\ HasDateRange(query_filter)
    /\ chunks' = _generate_date_chunks(query_filter.date_start,
                     query_filter.date_end, query_filter.chunk_size_days)
    /\ q_done' = q_done \cup {"_generate_date_chunks"}
    /\ UNCHANGED <<query_filter, query_string, manual_chunks, svars, dvars, bvars, avars, gvars, pvars, uvars, mvars, fvars, lvars, rvars, xvars>>

ManualGenerateDateChunks ==
    /\ "generate_date_chunks" \notin q_done
    /\ HasDateRange(query_filter)
    /\ manual_chunks' = generate_date_chunks(query_filter.date_start,
                            query_filter.date_end, query_filter.chunk_size_days)
    /\ q_done' = q_done \cup {"generate_date_chunks"}
    /\ UNCHANGED <<query_filter, query_string, chunks, svars, dvars, bvars, avars, gvars, pvars, uvars, mvars, fvars, lvars, rvars, xvars>>

QueryNext ==
    \/ BuildCaamlQuery
    \/ GenerateDateChunks
    \/ ManualGenerateDateChunks

(***************************************************************************)
(* SpecBuilder: build_caaml_query called repeatedly on one filter, and the  *)
(* text of the string it returns                                            *)
(***************************************************************************)
MaxBuilds == 2

\* QueryFilter(): every field at its default
QueryFilterDefaults ==
    [pit_name |-> None, date_start |-> NoDate, date_end |-> NoDate,
     state |-> None, username |-> None, organization_name |-> None,
     per_page |-> RESULTS_PER_PAGE, chunk_size_days |-> CHUNK_SIZE_DAYS]

BuilderDates ==
    {NoDate, <<2023, 1, 5>>, <<2024, 1, 1>>, <<2024, 1, 31>>, <<2024, 12, 31>>}

BuilderFilters ==
    [pit_name : {None, "a&b=c"},
     date_start : BuilderDates,
     date_end : BuilderDates,
     state : {None, "", "CO", "XX"},
     username : {None, "jo smith"},
     organization_name : {None, "Bridger Bowl Ski Patrol"},
     per_page : {50, 100, RESULTS_PER_PAGE, 2 * RESULTS_PER_PAGE},
     chunk_size_days : {CHUNK_SIZE_DAYS}]

\* the characters of a string field, with "&", "=" and " " singled out and
\* every run of other characters kept as one piece
Chars(s) ==
    CASE s = "" -> <<>>
      [] s = "a&b=c" -> <<"a", "&", "b", "=", "c">>
      [] s = "jo smith" -> <<"jo", " ", "smith">>
      [] s = "Bridger Bowl Ski Patrol" ->
             <<"Bridger", " ", "Bowl", " ", "Ski", " ", "Patrol">>
      [] OTHER -> <<s>>

Pad2(n) == IF n < 10 THEN "0" \o ToString(n) ELSE ToString(n)

\* a "YYYY-MM-DD" string, as the f-string prints it
DateString(d) == ToString(d[1]) \o "-" \o Pad2(d[2]) \o "-" \o Pad2(d[3])

\* the characters f"{value}" prints for the value of a parameter
FormatValue(key, v) ==
    IF key \in {"OBS_DATE_MIN", "OBS_DATE_MAX"}
    THEN (IF v = <<>> THEN <<>> ELSE <<DateString(v)>>)
    ELSE IF key \in {"recent_dates", "per_page"} THEN <<ToString(v)>>
    ELSE Chars(v)

\* f"KEY={value}"
FormatParam(p) == <<p[1], "=">> \o FormatValue(p[1], p[2])

\* "&".join(params)
RECURSIVE Join(_)
Join(params) ==
    IF params = <<>> THEN <<>>
    ELSE IF Len(params) = 1 THEN params[1]
    ELSE params[1] \o <<"&">> \o Join(Tail(params))

\* the characters of the string build_caaml_query returns
QueryText(q) == Join([i \in 1..Len(q.params) |-> FormatParam(q.params[i])])

\* build_caaml_query reads the fields of the filter and assigns none
FilterAfterBuild(f) == f

BuilderInit ==
    /\ query_filter \in BuilderFilters
    /\ query_string = NotCalled
    /\ chunks = <<>>
    /\ manual_chunks = <<>>
    /\ q_done = {}
    /\ renderings = <<>>
    /\ filter_given = query_filter

\* one more call of build_caaml_query(query_filter) on the same filter object
BuildAgain ==
    /\ Len(renderings) < MaxBuilds
    /\ query_string' = build_caaml_query(query_filter)
    /\ renderings' = Append(renderings, query_string')
    /\ query_filter' = FilterAfterBuild(query_filter)
    /\ q_done' = q_done \cup {"build_caaml_query"}
    /\ UNCHANGED <<chunks, manual_chunks, filter_given, svars, dvars, avars, gvars, pvars, uvars, mvars, fvars, lvars, rvars, xvars>>

BuilderNext ==
    \/ BuildAgain

(***************************************************************************)
(* SnowPilotSession                                                         *)
(***************************************************************************)
MaxCalls == 2
MaxRetries == 3
MaxLatency == 1

request_delay == DEFAULT_REQUEST_DELAY

\* time.time() at construction: the epoch clock is far beyond request_delay
StartTime == 2 * request_delay

Latencies == 0..MaxLatency

NoRequest == [kind |-> "none", at |-> 0, enforced |-> TRUE]

\* no query response at hand
NoResponse == [status |-> "none", cd |-> "absent"]

\* the (data_bytes, filename) pair when the download worked; (None, None) else
Running == "running"
Data == "data"

LoginOutcomes == {"200", "403", "RequestException"}

\* a query response: its status and what its Content-Disposition header holds
ContentDispositions == {"absent", "no_filename", "sentinel", "invalid", "valid"}
QueryOutcomes ==
    ([status : {"200", "403", "500"}, cd : ContentDispositions])
        \cup {[status |-> "RequestException", cd |-> "absent"]}

FileOutcomes == {"200", "403", "404", "RequestException"}

SessionInit ==
    /\ authenticated = FALSE
    /\ last_request_time = 0
    /\ now = StartTime
    /\ env_credentials \in BOOLEAN
    /\ spc = "idle"
    /\ attempt = 0
    /\ max_retries_arg = 0
    /\ request_result = None
    /\ auth_result = <<>>
    /\ calls = 0
    /\ http_last = NoRequest
    /\ http_prev = NoRequest
    /\ retry_sleeps = <<>>
    /\ forbidden_count = 0
    /\ attempts_made = 0
    /\ query_response = NoResponse

\* an HTTP request of the given kind leaves at time t
Http(kind, t, enforced) ==
    /\ http_prev' = http_last
    /\ http_last' = [kind |-> kind, at |-> t, enforced |-> enforced]

\* SnowPilotSession._enforce_rate_limit: the time at which it returns
_enforce_rate_limit(current_time, last) ==
    LET time_since_last_request == current_time - last
    IN IF time_since_last_request < request_delay
       THEN current_time + (request_delay - time_since_last_request)
       ELSE current_time

\* the environment variables are set or cleared between two calls
SetEnvironment ==
    /\ spc = "idle"
    /\ calls < MaxCalls
    /\ env_credentials' = ~env_credentials
    /\ UNCHANGED <<qvars, dvars, bvars, avars, gvars, pvars, uvars, mvars, fvars, lvars, rvars, xvars, authenticated, last_request_time, now, spc, attempt,
                   max_retries_arg, request_result, auth_result, calls,
                   http_last, http_prev, retry_sleeps, forbidden_count,
                   attempts_made, query_response>>

\* authenticate posting the login form whatever the environment holds
authenticate_unchecked ==
    /\ spc = "idle"
    /\ calls < MaxCalls
    /\ calls' = calls + 1
    /\ \E outcome \in LoginOutcomes, latency \in Latencies :
            /\ Http("login", now, FALSE)
            /\ now' = now + latency
            /\ IF outcome = "RequestException"
               THEN /\ auth_result' = <<FALSE>>
                    /\ UNCHANGED authenticated
               ELSE /\ authenticated' = (outcome = "200")
                    /\ auth_result' = <<outcome = "200">>
    /\ UNCHANGED <<qvars, dvars, bvars, avars, gvars, pvars, uvars, mvars, fvars, lvars, rvars, xvars, last_request_time, env_credentials, spc, attempt,
                   max_retries_arg, request_result, retry_sleeps,
                   forbidden_count, attempts_made, query_response>>

\* SnowPilotSession.authenticate
authenticate ==
    /\ spc = "idle"
    /\ calls < MaxCalls
    /\ calls' = calls + 1
    /\ IF ~env_credentials
       THEN /\ auth_result' = <<FALSE>>
            /\ UNCHANGED <<authenticated, now, http_last, http_prev>>
       ELSE \E outcome \in LoginOutcomes, latency \in Latencies :
            /\ Http("login", now, FALSE)
            /\ now' = now + latency
            /\ IF outcome = "RequestException"
               THEN /\ auth_result' = <<FALSE>>
                    /\ UNCHANGED authenticated
               ELSE /\ authenticated' = (outcome = "200")
                    /\ auth_result' = <<outcome = "200">>
    /\ UNCHANGED <<qvars, dvars, bvars, avars, gvars, pvars, uvars, mvars, fvars, lvars, rvars, xvars, last_request_time, env_credentials, spc, attempt,
                   max_retries_arg, request_result, retry_sleeps,
                   forbidden_count, attempts_made, query_response>>

\* a caller enters _make_caaml_request(query_string, max_retries)
MakeCaamlRequest ==
    /\ spc = "idle"
    /\ calls < MaxCalls
    /\ calls' = calls + 1
    /\ \E m \in 0..MaxRetries : max_retries_arg' = m
    /\ attempt' = 0
    /\ spc' = "loop"
    /\ request_result' = Running
    /\ retry_sleeps' = <<>>
    /\ forbidden_count' = 0
    /\ attempts_made' = 0
    /\ query_response' = NoResponse
    /\ UNCHANGED <<qvars, dvars, bvars, avars, gvars, pvars, uvars, mvars, fvars, lvars, rvars, xvars, authenticated, last_request_time, now, env_credentials,
                   auth_result, http_last, http_prev>>

\* `for attempt in range(max_retries)`: the next pass, or the fall through
LoopHead ==
    /\ spc = "loop"
    /\ IF attempt < max_retries_arg
       THEN /\ spc' = "create_session"
            /\ attempts_made' = attempts_made + 1
            /\ UNCHANGED request_result
       ELSE /\ spc' = "idle"
            /\ request_result' = None
            /\ UNCHANGED attempts_made
    /\ UNCHANGED <<qvars, dvars, bvars, avars, gvars, pvars, uvars, mvars, fvars, lvars, rvars, xvars, authenticated, last_request_time, now, env_credentials,
                   attempt, max_retries_arg, auth_result, calls, http_last,
                   http_prev, retry_sleeps, forbidden_count, query_response>>

\* `return None, None`
ReturnNone ==
    /\ spc' = "idle"
    /\ request_result' = None
    /\ UNCHANGED attempt

\* `if attempt < max_retries - 1: time.sleep(delay); continue`, else the
\* `return None, None` that follows it; t is the time before the sleep
RetryOrReturn(t, delay) ==
    IF attempt < max_retries_arg - 1
    THEN /\ now' = t + delay
         /\ attempt' = attempt + 1
         /\ spc' = "loop"
         /\ UNCHANGED request_result
    ELSE /\ now' = t
         /\ ReturnNone

\* _create_authenticated_session, and the handling of its result
CreateAuthenticatedSession ==
    /\ spc = "create_session"
    /\ IF ~env_credentials
       THEN /\ RetryOrReturn(now, request_delay * 2)
            /\ UNCHANGED <<http_last, http_prev>>
       ELSE \E outcome \in LoginOutcomes, latency \in Latencies :
            /\ Http("login", now, FALSE)
            /\ IF outcome = "200"
               THEN /\ spc' = "query"
                    /\ now' = now + latency
                    /\ UNCHANGED <<attempt, request_result>>
               ELSE RetryOrReturn(now + latency, request_delay * 2)
    /\ UNCHANGED <<qvars, dvars, bvars, avars, gvars, pvars, uvars, mvars, fvars, lvars, rvars, xvars, authenticated, last_request_time, env_credentials,
                   max_retries_arg, auth_result, calls, retry_sleeps,
                   forbidden_count, attempts_made, query_response>>

\* the `continue` after a 403, which sleeps request_delay * 3 first
RetryAfter403(t) ==
    /\ forbidden_count' = forbidden_count + 1
    /\ retry_sleeps' = IF attempt < max_retries_arg - 1
                       THEN Append(retry_sleeps, request_delay * 3)
                       ELSE retry_sleeps
    /\ RetryOrReturn(t, request_delay * 3)

\* the rate-limited query GET: the response arrives, or s.get raises
QueryGet ==
    /\ spc = "query"
    /\ LET sent == _enforce_rate_limit(now, last_request_time)
       IN \E r \in QueryOutcomes, latency \in Latencies :
            /\ last_request_time' = sent
            /\ Http("query", sent, TRUE)
            /\ IF r.status = "RequestException"
               THEN /\ RetryOrReturn(sent + latency, request_delay * 2)
                    /\ UNCHANGED query_response
               ELSE /\ now' = sent + latency
                    /\ query_response' = r
                    /\ spc' = "response"
                    /\ UNCHANGED <<attempt, request_result>>
    /\ UNCHANGED <<qvars, dvars, bvars, avars, gvars, pvars, uvars, mvars, fvars, lvars, rvars, xvars, authenticated, env_credentials, max_retries_arg,
                   auth_result, calls, attempts_made, retry_sleeps,
                   forbidden_count>>

\* the handling of the query response going on to the archive GET for
\* whatever a 200 response's Content-Disposition header holds
HandleQueryResponseAnyFilename ==
    /\ spc = "response"
    /\ query_response' = NoResponse
    /\ IF query_response.cd # "absent" /\ query_response.status = "200"
       THEN /\ spc' = "file"
            /\ UNCHANGED <<attempt, request_result, now, retry_sleeps,
                           forbidden_count>>
       ELSE IF query_response.status = "403"
       THEN RetryAfter403(now)
       ELSE /\ ReturnNone
            /\ UNCHANGED <<now, retry_sleeps, forbidden_count>>
    /\ UNCHANGED <<qvars, dvars, bvars, avars, gvars, pvars, uvars, mvars, fvars, lvars, rvars, xvars, authenticated, last_request_time, env_credentials,
                   max_retries_arg, auth_result, calls, attempts_made,
                   http_last, http_prev>>

\* the handling of the query response: on to the archive GET, a retry
\* after a 403, or `return None, None`
HandleQueryResponse ==
    /\ spc = "response"
    /\ query_response' = NoResponse
    /\ IF query_response.cd # "absent" /\ query_response.status = "200"
       THEN /\ IF query_response.cd = "valid"
               THEN spc' = "file" /\ UNCHANGED <<attempt, request_result>>
               ELSE ReturnNone
            /\ UNCHANGED <<now, retry_sleeps, forbidden_count>>
       ELSE IF query_response.status = "403"
       THEN RetryAfter403(now)
       ELSE /\ ReturnNone
            /\ UNCHANGED <<now, retry_sleeps, forbidden_count>>
    /\ UNCHANGED <<qvars, dvars, bvars, avars, gvars, pvars, uvars, mvars, fvars, lvars, rvars, xvars, authenticated, last_request_time, env_credentials,
                   max_retries_arg, auth_result, calls, attempts_made,
                   http_last, http_prev>>

\* the archive GET from data_url and the handling of its response
FileGet ==
    /\ spc = "file"
    /\ \E outcome \in FileOutcomes, latency \in Latencies :
        /\ Http("file", now, FALSE)
        /\ IF outcome = "200"
           THEN /\ now' = now + latency
                /\ spc' = "idle"
                /\ request_result' = Data
                /\ UNCHANGED <<attempt, retry_sleeps, forbidden_count>>
           ELSE IF outcome = "403"
           THEN RetryAfter403(now + latency)
           ELSE /\ now' = now + latency
                /\ ReturnNone
                /\ UNCHANGED <<retry_sleeps, forbidden_count>>
    /\ UNCHANGED <<qvars, dvars, bvars, avars, gvars, pvars, uvars, mvars, fvars, lvars, rvars, xvars, authenticated, last_request_time, env_credentials,
                   max_retries_arg, auth_result, calls, attempts_made,
                   query_response>>

SessionNext ==
    \/ SetEnvironment
    \/ authenticate
    \/ MakeCaamlRequest
    \/ LoopHead
    \/ CreateAuthenticatedSession
    \/ QueryGet
    \/ HandleQueryResponse
    \/ FileGet

(***************************************************************************)
(* QueryEngine: the chunked download over the checkpoint file               *)
(***************************************************************************)
MaxRuns == 2
MaxSpanDays == 4
MaxChunkRetries == 3
MaxPits == 1

Range(q) == {q[j] : j \in 1..Len(q)}

\* `lst.remove(x)`: the list without its first occurrence of x
RECURSIVE Remove(_, _)
Remove(lst, x) ==
    IF lst = <<>> THEN <<>>
    ELSE IF Head(lst) = x THEN Tail(lst)
    ELSE <<Head(lst)>> \o Remove(Tail(lst), x)

\* timestamps are abstracted to the number of the run that wrote them; 0 is None
NoTime == 0

\* ProgressTracker()
ProgressTracker ==
    [completed_chunks |-> <<>>, failed_chunks |-> <<>>, total_pits |-> 0,
     start_time |-> NoTime, last_update |-> NoTime, chunk_results |-> <<>>]

\* download_progress.json: absent, cut to zero length by open(.., "w"), or JSON
Absent == [state |-> "absent"]
Truncated == [state |-> "truncated"]
Json(p) == [state |-> "json", data |-> p]

\* the same, never reading the file
LoadIgnoringFile(file) == ProgressTracker

\* QueryEngine._load_progress
_load_progress(file) ==
    IF file.state = "json" THEN file.data ELSE ProgressTracker

\* f"{chunk_start}_{chunk_end}"
ChunkId(chunk) == <<chunk[1], chunk[2]>>

\* the same test against a list that never holds the id
IsCompletedNever(p, chunk_id) == FALSE

\* `chunk_id in progress.completed_chunks`
IsCompleted(p, chunk_id) == chunk_id \in Range(p.completed_chunks)

\* the remaining_chunks list comprehension
RemainingChunks(all_chunks, p) ==
    SelectSeq(all_chunks, LAMBDA chunk : ~IsCompleted(p, ChunkId(chunk)))

\* what the remote service (or the local disk) does with one chunk query
ServerResponses ==
    [kind : {"no_content_disposition", "sentinel_filename", "forbidden",
             "server_error", "corrupt_archive", "raises"}, pits : {0}]
        \cup [kind : {"archive"}, pits : 0..MaxPits]

NoDataResponses == {"no_content_disposition", "sentinel_filename"}

\* SnowPilotSession.download_caaml_data, by the response its request ends on
download_caaml_data(resp) ==
    IF resp.kind \in {"archive", "corrupt_archive"} THEN Data ELSE None

\* QueryEngine._query_caaml: the status and pit count of its QueryResult
_query_caaml(resp) ==
    IF resp.kind = "raises" THEN [status |-> "exception", total_count |-> 0]
    ELSE IF download_caaml_data(resp) # None
    THEN LET total_count == IF resp.kind = "corrupt_archive" THEN 0 ELSE resp.pits
         IN [status |-> IF total_count > 0 THEN "success" ELSE "no_data",
             total_count |-> total_count]
    ELSE [status |-> "failed", total_count |-> 0]

\* `delay = 30 * (attempt + 1)`
ChunkRetryDelay(a) == 30 * (a + 1)

\* approval_threshold, by its default
approval_threshold == 100

RunDateStart == <<2024, 2, 27>>
RunChunkSizes == {2}

\* the state codes of the query_pits calls: one state again, or the states
\* of a multi-state download one after the other
RunStates == {"MT", "CO"}

RunFilters ==
    [pit_name : {None, "Test Pit"},
     username : {"jo"},
     organization_name : {None},
     per_page : {100},
     date_start : {RunDateStart},
     date_end : {strftime(timedelta(strptime(RunDateStart), k)) : k \in 0..MaxSpanDays},
     chunk_size_days : RunChunkSizes,
     max_retries : 0..MaxChunkRetries]

AllChunks ==
    _generate_date_chunks(run_filter.date_start, run_filter.date_end,
                          run_filter.chunk_size_days)

AllChunkIds == {ChunkId(AllChunks[j]) : j \in 1..Len(AllChunks)}

CurrentChunkId == ChunkId(remaining_chunks[chunk_index])

\* `chunk_filter = QueryFilter(date_start=chunk_start, date_end=chunk_end,
\* state=..., username=..., organization_name=..., per_page=..., chunk=False)`
ChunkFilter(f, state, chunk) ==
    [QueryFilterDefaults EXCEPT !.date_start = chunk[1],
                                !.date_end = chunk[2],
                                !.state = state,
                                !.username = f.username,
                                !.organization_name = f.organization_name,
                                !.per_page = f.per_page]

\* the completed_chunks recorded in the checkpoint file, if it is readable
FileCompleted ==
    IF checkpoint.state = "json" THEN Range(checkpoint.data.completed_chunks) ELSE {}

DownloadInit ==
    /\ checkpoint = Absent
    /\ progress = ProgressTracker
    /\ dpc = "idle"
    /\ run_filter \in RunFilters
    /\ remaining_chunks = <<>>
    /\ chunk_index = 0
    /\ chunk_attempt = 0
    /\ runs = 0
    /\ loaded_completed = {}
    /\ queried = {}
    /\ estimate_calls = 0
    /\ all_done_at_start = FALSE
    /\ chunk_sleeps = <<>>
    /\ chunk_failures = 0
    /\ no_data_reported = FALSE
    /\ corrupt_reported = FALSE
    /\ known_completed = {}
    /\ run_states = <<>>
    /\ chunk_filter = QueryFilterDefaults
    /\ all_pits = 0

\* query_pits with query_filter.chunk = True, through _query_chunked's dry run
\* (one estimate_pit_count download of the whole range) and approval gate
query_pits ==
    /\ dpc = "idle"
    /\ runs < MaxRuns
    /\ runs' = runs + 1
    /\ queried' = {}
    /\ loaded_completed' = {}
    /\ known_completed' = {}
    /\ all_done_at_start' = (AllChunkIds \subseteq FileCompleted)
    /\ estimate_calls' = 1
    /\ \E state \in RunStates : run_states' = Append(run_states, state)
    /\ \E auto_approve \in BOOLEAN,
          total_estimated_pits \in {0, approval_threshold + 1},
          response \in {"y", "n"} :
            dpc' = IF /\ ~auto_approve
                      /\ total_estimated_pits > approval_threshold
                      /\ response # "y"
                   THEN "idle" ELSE "load"
    /\ UNCHANGED <<qvars, svars, bvars, avars, gvars, pvars, uvars, mvars, fvars, lvars, rvars, xvars, checkpoint, progress, run_filter, chunk_filter, all_pits,
                   remaining_chunks, chunk_index, chunk_attempt, chunk_sleeps,
                   chunk_failures, no_data_reported,
                   corrupt_reported>>

\* _download_chunked_dataset up to its loop: chunks, progress, remaining_chunks
LoadProgress ==
    /\ dpc = "load"
    /\ LET loaded == _load_progress(checkpoint)
           p == IF loaded.start_time = NoTime
                THEN [loaded EXCEPT !.start_time = runs] ELSE loaded
           remaining == RemainingChunks(AllChunks, p)
       IN /\ progress' = p
          /\ remaining_chunks' = remaining
          /\ loaded_completed' = Range(p.completed_chunks)
          /\ known_completed' = Range(p.completed_chunks)
          /\ chunk_index' = 1
          /\ all_pits' = 0
          /\ dpc' = IF remaining = <<>> THEN "finalize" ELSE "chunk"
    /\ UNCHANGED <<qvars, svars, bvars, avars, gvars, pvars, uvars, mvars, fvars, lvars, rvars, xvars, checkpoint, run_filter, run_states, chunk_filter, chunk_attempt, runs,
                   queried, estimate_calls, all_done_at_start, chunk_sleeps,
                   chunk_failures, no_data_reported,
                   corrupt_reported>>

\* the head of one pass of `for ... in enumerate(remaining_chunks)`
BeginChunk ==
    /\ dpc = "chunk"
    /\ chunk_attempt' = 0
    /\ chunk_sleeps' = <<>>
    /\ chunk_failures' = 0
    /\ no_data_reported' = FALSE
    /\ corrupt_reported' = FALSE
    /\ IF IsCompleted(progress, CurrentChunkId)
       THEN \* `continue`: on to the next chunk without saving
            /\ chunk_index' = chunk_index + 1
            /\ dpc' = IF chunk_index < Len(remaining_chunks) THEN "chunk" ELSE "finalize"
            /\ UNCHANGED chunk_filter
       ELSE /\ chunk_filter' = ChunkFilter(run_filter, run_states[runs],
                                           remaining_chunks[chunk_index])
            /\ dpc' = IF run_filter.max_retries > 0 THEN "attempt" ELSE "save_open"
            /\ UNCHANGED chunk_index
    /\ UNCHANGED <<qvars, svars, bvars, avars, gvars, pvars, uvars, mvars, fvars, lvars, rvars, xvars, checkpoint, progress, run_filter, run_states, all_pits,
                   remaining_chunks, runs, loaded_completed, queried,
                   estimate_calls, all_done_at_start, known_completed>>

ChunkInfo(chunk_id, pits_count) ==
    [chunk_id |-> chunk_id, pits_count |-> pits_count, success |-> TRUE]

\* the tracker after the `status == "success"` branch
OnSuccess(p, chunk_id, n) ==
    [p EXCEPT !.chunk_results = Append(@, ChunkInfo(chunk_id, n)),
              !.completed_chunks = Append(@, chunk_id),
              !.total_pits = @ + n,
              !.failed_chunks = IF chunk_id \in Range(@) THEN Remove(@, chunk_id) ELSE @]

\* the same without the chunk_results entry
OnNoDataUnrecorded(p, chunk_id) ==
    [p EXCEPT !.completed_chunks = Append(@, chunk_id)]

\* the tracker after the `status == "no_data"` branch
OnNoData(p, chunk_id) ==
    [p EXCEPT !.chunk_results = Append(@, ChunkInfo(chunk_id, 0)),
              !.completed_chunks = Append(@, chunk_id)]

\* the tracker after the last attempt failed
OnFinalFailure(p, chunk_id) ==
    [p EXCEPT !.failed_chunks = IF chunk_id \in Range(@) THEN @ ELSE Append(@, chunk_id)]

\* the same, giving up one attempt early
RetriesLeftEarly(a, max_retries) == a < max_retries - 2

\* `if attempt < query_filter.max_retries - 1`: another attempt follows
RetriesLeft(a, max_retries) == a < max_retries - 1

\* one pass of `for attempt in range(query_filter.max_retries)`
Attempt ==
    /\ dpc = "attempt"
    /\ \E resp \in ServerResponses :
        LET chunk_result == _query_caaml(resp)
            chunk_id == CurrentChunkId
        IN /\ queried' = queried \cup {chunk_id}
           /\ no_data_reported' = (resp.kind \in NoDataResponses)
           /\ corrupt_reported' = (resp.kind = "corrupt_archive")
           /\ IF chunk_result.status = "success"
              THEN /\ progress' = OnSuccess(progress, chunk_id, chunk_result.total_count)
                   /\ all_pits' = all_pits + chunk_result.total_count
                   /\ dpc' = "save_open"
                   /\ UNCHANGED <<chunk_attempt, chunk_sleeps, chunk_failures>>
              ELSE IF chunk_result.status = "no_data"
              THEN /\ progress' = OnNoData(progress, chunk_id)
                   /\ dpc' = "save_open"
                   /\ UNCHANGED <<chunk_attempt, chunk_sleeps, chunk_failures, all_pits>>
              ELSE \* status "failed", or an exception caught inside the loop
                   /\ chunk_failures' = chunk_failures + 1
                   /\ UNCHANGED all_pits
                   /\ IF RetriesLeft(chunk_attempt, run_filter.max_retries)
                      THEN /\ chunk_sleeps' = Append(chunk_sleeps,
                                                     ChunkRetryDelay(chunk_attempt))
                           /\ chunk_attempt' = chunk_attempt + 1
                           /\ UNCHANGED <<progress, dpc>>
                      ELSE /\ progress' = OnFinalFailure(progress, chunk_id)
                           /\ dpc' = "save_open"
                           /\ UNCHANGED <<chunk_attempt, chunk_sleeps>>
    /\ known_completed' = Range(progress'.completed_chunks)
    /\ UNCHANGED <<qvars, svars, bvars, avars, gvars, pvars, uvars, mvars, fvars, lvars, rvars, xvars, checkpoint, run_filter, run_states, chunk_filter, remaining_chunks,
                   chunk_index, runs, loaded_completed, estimate_calls,
                   all_done_at_start>>

\* _save_progress: last_update is set and open(progress_file, "w") cuts the file
SaveOpen ==
    /\ dpc = "save_open"
    /\ progress' = [progress EXCEPT !.last_update = runs]
    /\ checkpoint' = Truncated
    /\ dpc' = "save_dump"
    /\ UNCHANGED <<qvars, svars, bvars, avars, gvars, pvars, uvars, mvars, fvars, lvars, rvars, xvars, run_filter, run_states, chunk_filter, all_pits, remaining_chunks, chunk_index,
                   chunk_attempt, runs, loaded_completed, queried,
                   estimate_calls, all_done_at_start, chunk_sleeps,
                   chunk_failures, no_data_reported, corrupt_reported,
                   known_completed>>

\* _save_progress: json.dump writes the whole tracker; then the next chunk
SaveDump ==
    /\ dpc = "save_dump"
    /\ checkpoint' = Json(progress)
    /\ chunk_index' = chunk_index + 1
    /\ dpc' = IF chunk_index < Len(remaining_chunks) THEN "chunk" ELSE "finalize"
    /\ UNCHANGED <<qvars, svars, bvars, avars, gvars, pvars, uvars, mvars, fvars, lvars, rvars, xvars, progress, run_filter, run_states, chunk_filter, all_pits, remaining_chunks,
                   chunk_attempt, runs, loaded_completed, queried,
                   estimate_calls, all_done_at_start, chunk_sleeps,
                   chunk_failures, no_data_reported, corrupt_reported,
                   known_completed>>

\* the end of _download_chunked_dataset: the result is returned
Finalize ==
    /\ dpc = "finalize"
    /\ dpc' = "idle"
    /\ progress' = ProgressTracker
    /\ chunk_filter' = QueryFilterDefaults
    /\ all_pits' = 0
    /\ UNCHANGED <<qvars, svars, bvars, avars, gvars, pvars, uvars, mvars, fvars, lvars, rvars, xvars, checkpoint, run_filter, run_states, remaining_chunks,
                   chunk_index, chunk_attempt, runs, loaded_completed, queried,
                   estimate_calls, all_done_at_start, chunk_sleeps,
                   chunk_failures, no_data_reported, corrupt_reported,
                   known_completed>>

\* the process is terminated: everything in memory is lost, the file stays
Kill ==
    /\ dpc # "idle"
    /\ dpc' = "idle"
    /\ progress' = ProgressTracker
    /\ chunk_filter' = QueryFilterDefaults
    /\ all_pits' = 0
    /\ UNCHANGED <<qvars, svars, bvars, avars, gvars, pvars, uvars, mvars, fvars, lvars, rvars, xvars, checkpoint, run_filter, run_states, remaining_chunks,
                   chunk_index, chunk_attempt, runs, loaded_completed, queried,
                   estimate_calls, all_done_at_start, chunk_sleeps,
                   chunk_failures, no_data_reported, corrupt_reported,
                   known_completed>>

DownloadNext ==
    \/ query_pits
    \/ LoadProgress
    \/ BeginChunk
    \/ Attempt
    \/ SaveOpen
    \/ SaveDump
    \/ Finalize
    \/ Kill

(***************************************************************************)
(* SpecArchive: one _query_caaml call, from the downloaded bytes to the     *)
(* QueryResult, file by file                                                *)
(***************************************************************************)
MaxFiles == 4

\* for each file of an archive, in order: whether caaml_parser returns for it
\* or raises (e.g. a missing mandatory anchor element)
FileLists ==
    UNION {[1..n -> BOOLEAN] : n \in 0..MaxFiles}

\* the CAAML files of an archive, each with the pit it describes
FilesOf(flags) == [i \in 1..Len(flags) |-> [pit |-> i, parses |-> flags[i]]]

\* what download_caaml_data delivers: nothing, bytes that are no gzip tar, or
\* an archive of CAAML files
Archives ==
    {[kind |-> "none", files |-> <<>>], [kind |-> "corrupt", files |-> <<>>]}
        \cup {[kind |-> "archive", files |-> FilesOf(flags)] : flags \in FileLists}

\* QueryResult(query_filter=query_filter)
QueryResult ==
    [snow_pits |-> <<>>, total_count |-> 0, status |-> "success",
     error_message |-> None]

\* QueryEngine._extract_caaml_files: the files found, [] when tarfile.open fails
_extract_caaml_files(a) == IF a.kind = "archive" THEN a.files ELSE <<>>

ArchiveInit ==
    /\ archive \in Archives
    /\ apc = "idle"
    /\ caaml_files = <<>>
    /\ file_index = 0
    /\ pits = <<>>
    /\ error_log = <<>>
    /\ query_result = QueryResult

\* _query_caaml up to the call of _parse_caaml_pits: download, save, extract
QueryCaamlDownload ==
    /\ apc = "idle"
    /\ IF archive.kind = "none"
       THEN \* `else` branch: nothing was received
            /\ query_result' = [query_result EXCEPT
                                    !.status = "failed",
                                    !.error_message = "No data received from server"]
            /\ apc' = "done"
            /\ UNCHANGED <<caaml_files, file_index, error_log>>
       ELSE /\ caaml_files' = _extract_caaml_files(archive)
            /\ error_log' = IF archive.kind = "corrupt"
                             THEN Append(error_log, "Error extracting CAAML files")
                             ELSE error_log
            /\ file_index' = 1
            /\ apc' = "parse"
            /\ UNCHANGED query_result
    /\ UNCHANGED <<archive, pits, qvars, svars, dvars, bvars, gvars, pvars, uvars, mvars, fvars, lvars, rvars, xvars>>

\* one pass of `for file_path in caaml_files` in _parse_caaml_pits
ParseCaamlFile ==
    /\ apc = "parse"
    /\ file_index <= Len(caaml_files)
    /\ IF caaml_files[file_index].parses
       THEN /\ pits' = Append(pits, caaml_files[file_index].pit)
            /\ UNCHANGED error_log
       ELSE \* `except Exception`: logged, and on to the next file
            /\ error_log' = Append(error_log, "Error parsing CAAML file")
            /\ UNCHANGED pits
    /\ file_index' = file_index + 1
    /\ UNCHANGED <<archive, apc, caaml_files, query_result, qvars, svars, dvars, bvars, gvars, pvars, uvars, mvars, fvars, lvars, rvars, xvars>>

\* the end of the loop: snow_pits, total_count and status of the result
QueryCaamlStatus ==
    /\ apc = "parse"
    /\ file_index > Len(caaml_files)
    /\ query_result' = [query_result EXCEPT
                           !.snow_pits = pits,
                           !.total_count = Len(pits),
                           !.status = IF Len(pits) > 0 THEN "success" ELSE "no_data"]
    /\ apc' = "done"
    /\ UNCHANGED <<archive, caaml_files, file_index, pits, error_log,
                   qvars, svars, dvars, bvars, gvars, pvars, uvars, mvars, fvars, lvars, rvars, xvars>>

ArchiveNext ==
    \/ QueryCaamlDownload
    \/ ParseCaamlFile
    \/ QueryCaamlStatus

(***************************************************************************)
(* Grain (src/layer.py): the grain-form code and its derived classes        *)
(* (SpecGrain).  A code is the sequence of its characters, so that the      *)
(* slices [:2] and [2:] are computed; None is the empty sequence NoCode.     *)
(***************************************************************************)
MaxGrainSets == 3

NoCode == <<>>

\* the grain-form codes the calls pass: two and four characters long
GrainCodes ==
    { <<"S", "H">>, <<"F", "C">>, <<"P", "P">>,
      <<"F", "C", "x", "r">>, <<"R", "G", "x", "f">> }

\* Grain.__init__
Grain ==
    [grainForm |-> NoCode,
     basicGrainClass_code |-> NoCode,
     subGrainClass_code |-> NoCode]

\* Grain.set_grainForm: the sub class is the part after the first two
\* characters, and a code of at most two characters leaves it as it was
set_grainForm(g, grainForm) ==
    IF Len(grainForm) > 2
    THEN [g EXCEPT !.grainForm = grainForm,
                   !.basicGrainClass_code = SubSeq(grainForm, 1, 2),
                   !.subGrainClass_code = SubSeq(grainForm, 3, Len(grainForm))]
    ELSE [g EXCEPT !.grainForm = grainForm,
                   !.basicGrainClass_code = grainForm]

GrainInit ==
    /\ grain = Grain
    /\ grain_history = <<>>

\* one more set_grainForm call on the same Grain
SetGrainForm ==
    /\ Len(grain_history) < MaxGrainSets
    /\ \E c \in GrainCodes :
           /\ grain' = set_grainForm(grain, c)
           /\ grain_history' = Append(grain_history, c)
    /\ UNCHANGED <<qvars, svars, dvars, bvars, avars, pvars, uvars, mvars, fvars, lvars, rvars, xvars>>

GrainNext ==
    \/ SetGrainForm

(***************************************************************************)
(* caaml_parser (src/caaml_parser.py) over one document (SpecParser).       *)
(* A document is the set of its optional subtrees plus the layer elements   *)
(* under stratProfile; the subtrees carry the values of one sample pit.     *)
(* Python's None is the empty sequence for an object-valued attribute and   *)
(* the string None for a text-valued one.  The setters the parser calls on  *)
(* SnowPit and Layer are read as plain assignments.                         *)
(***************************************************************************)
MaxLayers == 2
MaxTests == 2

OptionalSubtrees ==
    {"srcRef", "metaData", "weatherCond", "stratProfile", "tempProfile",
     "densityProfile", "surfCond", "stbTests", "customData"}

\* a Python value the parser hands to set_layerOfConcern: None or the
\* element's text
PyNone == [type |-> "NoneType", text |-> ""]
PyStr(text) == [type |-> "str", text |-> text]

\* `x == True`: equal for the bool True only, never for a str or for None
PyEqTrue(x) == x.type = "bool" /\ x.text = "True"

\* a layer element without a layerOfConcern child
NoElement == "(no element)"

\* the layer elements a stratProfile can hold
SourceLayers ==
    [grainFormPrimary : {<<"F", "C">>, <<"F", "C", "x", "r">>},
     layerOfConcern : {NoElement, "true", "false"}]

SourceLayerLists == UNION {[1..n -> SourceLayers] : n \in 0..MaxLayers}

\* the element names of the seven stability tests, in the order of the
\* parser's seven loops
TestKinds ==
    <<"ExtColumnTest", "ComprTest", "RBlockTest", "PropSawTest",
      "StuffBlockTest", "ShovelShearTest", "DeepTapTest">>

\* the test elements a stbTests block can hold: of the first, a middle or the
\* last kind, with a child element (the failedOn / noFailure result) or empty
SourceTests ==
    [kind : {"ExtColumnTest", "PropSawTest", "DeepTapTest"}, has_child : BOOLEAN]

SourceTestLists == UNION {[1..n -> SourceTests] : n \in 0..MaxTests}

\* the namespace prefix the parser builds its tags with
common_tag == "{http://caaml.org/Schemas/SnowProfileIACS/v6.0.3}"

\* the namespace a document declares for the CAAML schema: v6.0.3 or v5.0
CaamlNamespaces ==
    {common_tag, "{http://caaml.org/Schemas/SnowProfileIACS/v5.0}"}

\* the complete document, or the complete document less one optional
\* subtree, in either namespace; only a document with a stratProfile has
\* layer elements
Documents ==
    {d \in [namespace : CaamlNamespaces,
            present : {OptionalSubtrees} \cup
                          {OptionalSubtrees \ {s} : s \in OptionalSubtrees},
            layers : SourceLayerLists,
            tests : SourceTestLists] :
        /\ "stratProfile" \notin d.present => d.layers = <<>>
        /\ "stbTests" \notin d.present => d.tests = <<>>}

\* next(root.iter(common_tag + name), None) is not None: the element is in
\* the document and its tag carries the parser's namespace prefix
Found(doc, name) == doc.namespace = common_tag /\ name \in doc.present

\* Layer.__init__; id tells the Layer objects of one call apart
Layer(id) ==
    [id |-> id, grainFormPrimary |-> Grain, layerOfConcern |-> PyNone]

\* SurfaceCondition.__init__
SurfaceCondition ==
    [windLoading |-> None, penetrationFoot |-> None, penetrationSki |-> None]

\* SnowProfile.__init__
SnowProfile ==
    [weatherConditions |-> <<>>, surfCond |-> <<>>, layers |-> <<>>,
     tempProfile |-> <<>>, densityProfile |-> <<>>, layer_of_concern |-> <<>>]

\* SnowPit.__init__, with the wumphData attribute the parser reads
SnowPit ==
    [caamlVersion |-> None,
     pitID |-> None,
     user |-> [ContactPersonID |-> None, Username |-> None],
     snowProfile |-> SnowProfile,
     stabilityTests |-> <<>>,
     wumphData |-> <<>>]

\* SnowProfile.add_layer
add_layer(profile, layer) ==
    [profile EXCEPT
        !.layers = Append(@, layer),
        !.layer_of_concern = IF PyEqTrue(layer.layerOfConcern)
                             THEN <<layer>> ELSE @]

Proceeds(p) == [pit |-> p, raised |-> ""]
Raises(p, exception) == [pit |-> p, raised |-> exception]

\* caamlVersion, pitID, date, user and location: the version recorded is
\* the parser's own prefix, the locRef element is found only under that
\* prefix, and srcRef is read only when it is found
ParseCoreInfo(p, doc) ==
    LET identified == [p EXCEPT
                          !.caamlVersion = common_tag,
                          !.pitID = IF doc.namespace = common_tag
                                    THEN "66387" ELSE None]
    IN  Proceeds(IF Found(doc, "srcRef")
                 THEN [identified EXCEPT
                          !.user = [ContactPersonID |-> "SnowPilot-User-7",
                                    Username |-> "jo"]]
                 ELSE identified)

\* measurement direction, profile depth, weather conditions, hS
ParseWeatherConditions(p, doc) ==
    Proceeds(IF Found(doc, "weatherCond")
             THEN [p EXCEPT !.snowProfile.weatherConditions =
                                <<[skyCond |-> "CLR", windSpeed |-> "C"]>>]
             ELSE p)

\* surface conditions: the SurfaceCondition is created only when surfCond
\* is there, and the penetration setters are called on it either way
ParseSurfaceConditions(p, doc) ==
    LET created == IF Found(doc, "surfCond")
                   THEN [p EXCEPT !.snowProfile.surfCond = <<SurfaceCondition>>]
                   ELSE p
    IN  IF created.snowProfile.surfCond = <<>>
        THEN Raises(created, "AttributeError")
        ELSE Proceeds([created EXCEPT
                 !.snowProfile.surfCond =
                     <<[created.snowProfile.surfCond[1] EXCEPT
                           !.penetrationFoot = "12.0 cm",
                           !.penetrationSki = None]>>])

\* layers = list(stratProfile), with stratProfile None when it is missing
ListLayers(p, doc) ==
    IF Found(doc, "stratProfile")
    THEN Proceeds(p)
    ELSE Raises(p, "TypeError")

\* one pass of `for layer in layers`: a Layer is built from the element's
\* properties and added to the profile
ParseLayer(p, layer) ==
    LET layer_obj == Layer(Len(p.snowProfile.layers) + 1)
        with_grain == [layer_obj EXCEPT
                          !.grainFormPrimary =
                              set_grainForm(Grain, layer.grainFormPrimary)]
        with_concern == IF layer.layerOfConcern = NoElement
                        THEN with_grain
                        ELSE [with_grain EXCEPT
                                 !.layerOfConcern = PyStr(layer.layerOfConcern)]
    IN  [p EXCEPT !.snowProfile = add_layer(@, with_concern)]

\* temperature profile and density profile
ParseProfiles(p, doc) ==
    LET with_temp == IF Found(doc, "tempProfile")
                     THEN [p EXCEPT !.snowProfile.tempProfile =
                                        <<[depth |-> "10 cm", snowTemp |-> "-5.0 degC"]>>]
                     ELSE p
    IN  Proceeds(IF Found(doc, "densityProfile")
                 THEN [with_temp EXCEPT !.snowProfile.densityProfile =
                                            <<[depthTop |-> "0 cm", density |-> "120 kgm-3"]>>]
                 ELSE with_temp)

\* test_results.iter(common_tag + kind) for each of the seven loops in turn:
\* the test elements of the block, kind by kind, each with its position
RECURSIVE TestsInLoopOrder(_, _)
TestsInLoopOrder(tests, k) ==
    IF k > Len(TestKinds) THEN <<>>
    ELSE SelectSeq([i \in 1..Len(tests) |->
                        [kind |-> tests[i].kind, has_child |-> tests[i].has_child,
                         element |-> i]],
                   LAMBDA t : t.kind = TestKinds[k])
            \o TestsInLoopOrder(tests, k + 1)

\* one pass of a test loop after the other: `test[0]` raises IndexError for a
\* test element without a child, else the test object is added to the pit
RECURSIVE ParseTests(_, _, _)
ParseTests(p, tests, i) ==
    IF i > Len(tests) THEN Proceeds(p)
    ELSE IF ~tests[i].has_child THEN Raises(p, "IndexError")
    ELSE ParseTests(
             [p EXCEPT !.stabilityTests =
                  Append(@, [kind |-> tests[i].kind, element |-> tests[i].element])],
             tests, i + 1)

\* stability tests: next() on the stbTests iterator has no default
ParseStabilityTests(p, doc) ==
    IF Found(doc, "stbTests")
    THEN ParseTests(p, TestsInLoopOrder(doc.tests, 1), 1)
    ELSE Raises(p, "StopIteration")

\* custom data: whumpf data and wind loading
ParseCustomData(p, doc) ==
    IF Found(doc, "customData")
    THEN IF p.snowProfile.surfCond = <<>>
         THEN Raises(p, "AttributeError")
         ELSE Proceeds([p EXCEPT
                  !.wumphData = <<[wumphCracking |-> "true"]>>,
                  !.snowProfile.surfCond =
                      <<[p.snowProfile.surfCond[1] EXCEPT !.windLoading = "CUR"]>>])
    ELSE Proceeds(p)

RECURSIVE ParseLayers(_, _, _)
ParseLayers(p, layers, i) ==
    IF i > Len(layers) THEN p
    ELSE ParseLayers(ParseLayer(p, layers[i]), layers, i + 1)

\* the whole call: the SnowPit it returns, or the exception it raises
caaml_parser(doc) ==
    LET core == ParseCoreInfo(SnowPit, doc)
        weather == IF core.raised # "" THEN core
                   ELSE ParseWeatherConditions(core.pit, doc)
        surface == IF weather.raised # "" THEN weather
                   ELSE ParseSurfaceConditions(weather.pit, doc)
        listed == IF surface.raised # "" THEN surface
                  ELSE ListLayers(surface.pit, doc)
        layered == IF listed.raised # "" THEN listed
                   ELSE Proceeds(ParseLayers(listed.pit, doc.layers, 1))
        profiles == IF layered.raised # "" THEN layered
                    ELSE ParseProfiles(layered.pit, doc)
        tests == IF profiles.raised # "" THEN profiles
                 ELSE ParseStabilityTests(profiles.pit, doc)
    IN  IF tests.raised # "" THEN tests ELSE ParseCustomData(tests.pit, doc)

ParserInit ==
    /\ document \in Documents
    /\ ppc = "core"
    /\ pit = SnowPit
    /\ layer_index = 1
    /\ raised = ""

\* one section of the call: its outcome and where the call goes next
Step(outcome, next) ==
    /\ pit' = outcome.pit
    /\ raised' = outcome.raised
    /\ ppc' = IF outcome.raised = "" THEN next ELSE "raised"

CoreInfoStep ==
    /\ ppc = "core"
    /\ Step(ParseWeatherConditions(ParseCoreInfo(pit, document).pit, document),
            "surface")
    /\ UNCHANGED <<document, layer_index, qvars, svars, dvars, bvars, avars, gvars, uvars, mvars, fvars, lvars, rvars, xvars>>

SurfaceConditionsStep ==
    /\ ppc = "surface"
    /\ Step(ParseSurfaceConditions(pit, document), "list_layers")
    /\ UNCHANGED <<document, layer_index, qvars, svars, dvars, bvars, avars, gvars, uvars, mvars, fvars, lvars, rvars, xvars>>

ListLayersStep ==
    /\ ppc = "list_layers"
    /\ Step(ListLayers(pit, document), "layers")
    /\ layer_index' = 1
    /\ UNCHANGED <<document, qvars, svars, dvars, bvars, avars, gvars, uvars, mvars, fvars, lvars, rvars, xvars>>

LayerStep ==
    /\ ppc = "layers"
    /\ layer_index <= Len(document.layers)
    /\ pit' = ParseLayer(pit, document.layers[layer_index])
    /\ layer_index' = layer_index + 1
    /\ UNCHANGED <<document, ppc, raised, qvars, svars, dvars, bvars, avars, gvars, uvars, mvars, fvars, lvars, rvars, xvars>>

ProfilesStep ==
    /\ ppc = "layers"
    /\ layer_index > Len(document.layers)
    /\ Step(ParseProfiles(pit, document), "tests")
    /\ UNCHANGED <<document, layer_index, qvars, svars, dvars, bvars, avars, gvars, uvars, mvars, fvars, lvars, rvars, xvars>>

StabilityTestsStep ==
    /\ ppc = "tests"
    /\ Step(ParseStabilityTests(pit, document), "custom")
    /\ UNCHANGED <<document, layer_index, qvars, svars, dvars, bvars, avars, gvars, uvars, mvars, fvars, lvars, rvars, xvars>>

CustomDataStep ==
    /\ ppc = "custom"
    /\ Step(ParseCustomData(pit, document), "returned")
    /\ UNCHANGED <<document, layer_index, qvars, svars, dvars, bvars, avars, gvars, uvars, mvars, fvars, lvars, rvars, xvars>>

ParserNext ==
    \/ CoreInfoStep
    \/ SurfaceConditionsStep
    \/ ListLayersStep
    \/ LayerStep
    \/ ProfilesStep
    \/ StabilityTestsStep
    \/ CustomDataStep

(***************************************************************************)
(* The user section of caaml_parser in src/zz_old/zz_caaml_parser.py, which *)
(* fills the User of src/coreInfo.py (SpecUser).  The srcRef block is the   *)
(* sequence of its Person and Operation elements; an Operation may hold a   *)
(* name and, under contactPerson, a Person.                                 *)
(***************************************************************************)
MaxSrcRefElements == 2

\* an element without a gml:id attribute
NoAttr == "(no attribute)"

Persons ==
    [tag : {"Person"}, id : {NoAttr, "SnowPilot-User-15812"},
     name : {"katisthebatis"}, contact : {<<>>}]

Operations ==
    [tag : {"Operation"}, id : {NoAttr, "SnowPilot-Group-3"},
     name : {NoElement, "Bridger Bowl"},
     contact : {<<>>} \cup {<<q>> : q \in Persons}]

SrcRefs ==
    UNION {[1..n -> Persons \cup Operations] : n \in 0..MaxSrcRefElements}

\* User.__init__
User ==
    [operationID |-> None, operationName |-> None, professional |-> FALSE,
     userID |-> None, username |-> None]

\* srcRef.iter(caaml_tag + "Operation")
OperationElements(ref) == SelectSeq(ref, LAMBDA el : el.tag = "Operation")

\* a section of the parser ends normally with the User u, or by raising
UserProceeds(u) == [user |-> u, raised |-> ""]
UserRaises(u, exception) == [user |-> u, raised |-> exception]

\* the OperationID loop without the set_professional call
RECURSIVE ParseOperationIDOnly(_, _, _)
ParseOperationIDOnly(u, operations, i) ==
    IF i > Len(operations) THEN UserProceeds(u)
    ELSE IF operations[i].id = NoAttr THEN UserRaises(u, "KeyError")
    ELSE ParseOperationIDOnly(
             [u EXCEPT !.operationID = operations[i].id],
             operations, i + 1)

\* the OperationID loop: prop.attrib[gml:id] raises KeyError when the
\* attribute is missing; otherwise the id is stored and the user becomes
\* professional
RECURSIVE ParseOperationID(_, _, _)
ParseOperationID(u, operations, i) ==
    IF i > Len(operations) THEN UserProceeds(u)
    ELSE IF operations[i].id = NoAttr THEN UserRaises(u, "KeyError")
    ELSE ParseOperationID(
             [u EXCEPT !.operationID = operations[i].id,
                       !.professional = TRUE],
             operations, i + 1)

\* the names found under the Operation elements, in document order: the
\* operation's own name, then the name of its contact person
RECURSIVE OperationNames(_, _)
OperationNames(operations, i) ==
    IF i > Len(operations) THEN <<>>
    ELSE (IF operations[i].name = NoElement THEN <<>> ELSE <<operations[i].name>>)
         \o (IF operations[i].contact = <<>> THEN <<>>
             ELSE <<operations[i].contact[1].name>>)
         \o OperationNames(operations, i + 1)

\* the OperationName block: the first name found, else None
ParseOperationName(u, operations) ==
    LET names == OperationNames(operations, 1)
    IN  [u EXCEPT !.operationName = IF names # <<>> THEN names[1] ELSE None]

\* the elements of srcRef.iter() whose tag ends with Person, in document
\* order: a Person directly under srcRef, or the one under an Operation
RECURSIVE PersonElements(_, _)
PersonElements(ref, i) ==
    IF i > Len(ref) THEN <<>>
    ELSE (IF ref[i].tag = "Person" THEN <<ref[i]>> ELSE ref[i].contact)
         \o PersonElements(ref, i + 1)

\* the Person loop: attrib.get gives None for a missing id
RECURSIVE ParsePersons(_, _, _)
ParsePersons(u, persons, i) ==
    IF i > Len(persons) THEN u
    ELSE ParsePersons(
             [u EXCEPT !.userID = IF persons[i].id = NoAttr THEN None
                                  ELSE persons[i].id,
                       !.username = persons[i].name],
             persons, i + 1)

UserInit ==
    /\ src_ref \in SrcRefs
    /\ user = User
    /\ upc = "operation_id"
    /\ user_raised = ""

OperationIDStep ==
    /\ upc = "operation_id"
    /\ LET outcome == ParseOperationID(user, OperationElements(src_ref), 1)
       IN  /\ user' = outcome.user
           /\ user_raised' = outcome.raised
           /\ upc' = IF outcome.raised = "" THEN "operation_name" ELSE "raised"
    /\ UNCHANGED <<src_ref, qvars, svars, dvars, bvars, avars, gvars, pvars, mvars, fvars, lvars, rvars, xvars>>

OperationNameStep ==
    /\ upc = "operation_name"
    /\ user' = ParseOperationName(user, OperationElements(src_ref))
    /\ upc' = "person"
    /\ UNCHANGED <<src_ref, user_raised, qvars, svars, dvars, bvars, avars, gvars, pvars, mvars, fvars, lvars, rvars, xvars>>

PersonStep ==
    /\ upc = "person"
    /\ user' = ParsePersons(user, PersonElements(src_ref, 1), 1)
    /\ upc' = "done"
    /\ UNCHANGED <<src_ref, user_raised, qvars, svars, dvars, bvars, avars, gvars, pvars, mvars, fvars, lvars, rvars, xvars>>

UserNext ==
    \/ OperationIDStep
    \/ OperationNameStep
    \/ PersonStep

(***************************************************************************)
(* SpecManual: download_results called directly, or once per chunk by       *)
(* manual_chunking.download_chunks_with_delay                               *)
(***************************************************************************)
MaxDelayChunks == 3

Entries == {"download_results", "download_chunks_with_delay"}

\* the `states` lists tried: none, one state, two states
StateLists ==
    {<<>>, <<"MT">>, <<"XX">>, <<"MT", "CO">>, <<"MT", "XX">>, <<"XX", "MT">>}

ManualFilters == [state : {None, "MT", "XX"}, states : StateLists]

\* QueryFilter(..., state=state, ...): the filter of one chunk or of one state
StateFilter(state) == [QueryFilterDefaults EXCEPT !.state = state]

\* QueryResult.status as query_pits leaves it
QueryStatuses == {"success", "no_data", "failed"}

\* ChunkResult(success=..., error_message=...)
ChunkResult(success, error_message) ==
    [success |-> success, error_message |-> error_message]

ManualInit ==
    /\ entry \in Entries
    /\ base_query_filter \in ManualFilters
    /\ total_chunks \in 1..MaxDelayChunks
    /\ entry = "download_results" => total_chunks = 1
    /\ mpc = IF entry = "download_results" THEN "download_results" ELSE "chunk"
    /\ chunk_i = 0
    /\ state_index = 0
    /\ chunk_results = <<>>
    /\ delays_slept = 0
    /\ unsupported_detected = FALSE

\* the head of `for i, (chunk_start, chunk_end) in enumerate(chunks)`, with the
\* `if i > 0: time.sleep(delay_between_chunks)` before the chunk's download
NextChunk ==
    /\ mpc = "chunk"
    /\ IF chunk_i < total_chunks
       THEN /\ delays_slept' = IF chunk_i > 0 THEN delays_slept + 1 ELSE delays_slept
            /\ mpc' = "download_results"
       ELSE /\ mpc' = "done"
            /\ UNCHANGED delays_slept
    /\ UNCHANGED <<entry, base_query_filter, total_chunks, chunk_i, state_index,
                   chunk_results, unsupported_detected,
                   qvars, svars, dvars, bvars, avars, gvars, pvars, uvars, fvars, lvars, rvars, xvars>>

\* an exception leaving download_results: caught by the `except Exception` of
\* download_chunks_with_delay, which records the chunk as failed and goes on
\* with the loop; a direct caller receives it
Raised(exception) ==
    /\ unsupported_detected' = (unsupported_detected \/ exception = "ValueError")
    /\ IF entry = "download_chunks_with_delay"
       THEN /\ chunk_results' = Append(chunk_results, ChunkResult(FALSE, exception))
            /\ chunk_i' = chunk_i + 1
            /\ mpc' = "chunk"
       ELSE /\ mpc' = "raised"
            /\ UNCHANGED <<chunk_results, chunk_i>>

\* download_results returning a QueryResult of the given status
Returned(status) ==
    /\ IF entry = "download_chunks_with_delay"
       THEN /\ chunk_results' =
                Append(chunk_results,
                       IF status \in {"success", "no_data"}
                       THEN ChunkResult(TRUE, None)
                       ELSE ChunkResult(FALSE, "Unknown error"))
            /\ chunk_i' = chunk_i + 1
            /\ mpc' = "chunk"
       ELSE /\ mpc' = "done"
            /\ UNCHANGED <<chunk_results, chunk_i>>
    /\ UNCHANGED unsupported_detected

\* download_results: the multi-state branch when `states` is given, else
\* query_pits, whose dry run builds the query string before any request
DownloadResults ==
    /\ mpc = "download_results"
    /\ IF base_query_filter.states # <<>>
       THEN /\ mpc' = "estimate"
            /\ state_index' = 1
            /\ UNCHANGED <<chunk_results, chunk_i, unsupported_detected>>
       ELSE /\ IF build_caaml_query(StateFilter(base_query_filter.state)).raised
                      = "ValueError"
               THEN Raised("ValueError")
               ELSE \E status \in QueryStatuses : Returned(status)
            /\ UNCHANGED state_index
    /\ UNCHANGED <<entry, base_query_filter, total_chunks, delays_slept,
                   qvars, svars, dvars, bvars, avars, gvars, pvars, uvars, fvars, lvars, rvars, xvars>>

\* _download_multi_state_results: one pass of the dry-run loop over the states
\* (outside any try), and after the loop the approval gate
EstimateState ==
    /\ mpc = "estimate"
    /\ IF state_index <= Len(base_query_filter.states)
       THEN IF build_caaml_query(
                   StateFilter(base_query_filter.states[state_index])).raised
                   = "ValueError"
            THEN /\ Raised("ValueError")
                 /\ UNCHANGED state_index
            ELSE /\ state_index' = state_index + 1
                 /\ UNCHANGED <<mpc, chunk_results, chunk_i, unsupported_detected>>
       ELSE \E proceed \in BOOLEAN :
              IF proceed
              THEN /\ mpc' = "states"
                   /\ state_index' = 1
                   /\ UNCHANGED <<chunk_results, chunk_i, unsupported_detected>>
              ELSE \* cancelled: a QueryResult with the default status
                   /\ Returned("success")
                   /\ UNCHANGED state_index
    /\ UNCHANGED <<entry, base_query_filter, total_chunks, delays_slept,
                   qvars, svars, dvars, bvars, avars, gvars, pvars, uvars, fvars, lvars, rvars, xvars>>

\* _download_multi_state_results: one pass of the download loop over the
\* states (query_pits in try/except, `continue` on an exception), and after
\* the loop the combined QueryResult
DownloadState ==
    /\ mpc = "states"
    /\ IF state_index <= Len(base_query_filter.states)
       THEN /\ state_index' = state_index + 1
            /\ unsupported_detected' =
                 (\/ unsupported_detected
                  \/ build_caaml_query(
                        StateFilter(base_query_filter.states[state_index])).raised
                        = "ValueError")
            /\ UNCHANGED <<mpc, chunk_results, chunk_i>>
       ELSE /\ Returned("success")
            /\ UNCHANGED state_index
    /\ UNCHANGED <<entry, base_query_filter, total_chunks, delays_slept,
                   qvars, svars, dvars, bvars, avars, gvars, pvars, uvars, fvars, lvars, rvars, xvars>>

ManualNext ==
    \/ NextChunk
    \/ DownloadResults
    \/ EstimateState
    \/ DownloadState

(***************************************************************************)
(* SpecPagination: _query_caaml from its first download to the file list    *)
(* it hands to _parse_caaml_pits, with the follow-up request for a full     *)
(* page                                                                     *)
(***************************************************************************)
MaxPageFiles == 2
MaxFollowUpFiles == 3

PageDateStart == <<2024, 2, 27>>

\* the chunk's filter: a single day or a week, with a page size small enough
\* for an archive to fill, or the default
PageFilters ==
    [pit_name : {None, "Test Pit"},
     date_start : {PageDateStart},
     date_end : {PageDateStart, <<2024, 3, 4>>},
     state : {None, "MT"},
     username : {None, "jo"},
     organization_name : {None, "Bridger Bowl Ski Patrol"},
     per_page : {MaxPageFiles, RESULTS_PER_PAGE},
     chunk_size_days : {CHUNK_SIZE_DAYS}]

\* the names of archive members ending in "caaml.xml", as the pieces between
\* their "-"s: <prefix>-<pit id>-caaml.xml, and a name without any "-"
PitIds == {"101", "102"}
FileNames == {<<"snowpits", id, "caaml.xml">> : id \in PitIds} \cup {<<"caaml.xml">>}

NameLists(n) == UNION {[1..k -> FileNames] : k \in 0..n}

\* what download_caaml_data returns: None, bytes that are no gzip tar, or the
\* bytes of an archive of CAAML files
NoData == [kind |-> "none", bytes |-> 0, names |-> <<>>]

PageArchives(n, stamps) ==
    {NoData}
        \cup {[kind |-> "corrupt", bytes |-> b, names |-> <<>>] : b \in stamps}
        \cup {[kind |-> "archive", bytes |-> b, names |-> names] :
                 b \in stamps, names \in NameLists(n)}

FirstResponses == PageArchives(MaxPageFiles, {1})
FollowUpResponses == PageArchives(MaxFollowUpFiles, {1, 2})

\* _extract_caaml_files(filepath): the members found under the directory the
\* archive is extracted into, [] when tarfile.open fails
ExtractInto(a, extract_path) ==
    IF a.kind = "archive"
    THEN [i \in 1..Len(a.names) |-> [dir |-> extract_path, name |-> a.names[i]]]
    ELSE <<>>

\* `os.path.basename(file).split("-")[-2]`, or the IndexError of a name
\* without "-"
IndexError == "IndexError"
pit_id(file) ==
    IF Len(file.name) >= 2 THEN file.name[Len(file.name) - 1] ELSE IndexError

\* the `existing_ids` loop, with its bare `except: pass`
existing_ids(files) == {pit_id(files[i]) : i \in 1..Len(files)} \ {IndexError}

\* the same without the test against existing_ids
new_files_unfiltered(existing, additional) == additional

\* the `new_files` loop: files whose id is new, and files without an id
new_files(existing, additional) ==
    SelectSeq(additional,
              LAMBDA f : \/ pit_id(f) = IndexError
                         \/ pit_id(f) \notin existing_ids(existing))

\* QueryFilter(date_start=..., date_end=..., state=..., per_page=RESULTS_PER_PAGE)
larger_filter(f) ==
    [QueryFilterDefaults EXCEPT !.date_start = f.date_start,
                                !.date_end = f.date_end,
                                !.state = f.state,
                                !.per_page = RESULTS_PER_PAGE]

PaginationInit ==
    /\ page_filter \in PageFilters
    /\ fpc = "idle"
    /\ caaml_data = NoData
    /\ extracted_files = <<>>
    /\ additional_files = <<>>
    /\ all_extracted_files = <<>>
    /\ queries_sent = <<>>

\* the first download of the call, the extraction of its archive and the
\* test `len(extracted_files) == query_filter.per_page`
FirstDownload ==
    /\ fpc = "idle"
    /\ \E data \in FirstResponses :
         /\ queries_sent' = <<build_caaml_query(page_filter)>>
         /\ caaml_data' = data
         /\ IF data.kind # "none"
            THEN LET files == ExtractInto(data, "pits")
                 IN  /\ extracted_files' = files
                     /\ all_extracted_files' = files
                     /\ fpc' = IF Len(files) = page_filter.per_page
                               THEN "followup" ELSE "parse"
            ELSE /\ fpc' = "failed"
                 /\ UNCHANGED <<extracted_files, all_extracted_files>>
    /\ UNCHANGED <<page_filter, additional_files,
                   qvars, svars, dvars, bvars, avars, gvars, pvars, uvars, mvars, lvars, rvars, xvars>>

\* the follow-up download with larger_filter, and the test
\* `additional_data and additional_data != caaml_data`
FollowUpDownload ==
    /\ fpc = "followup"
    /\ \E additional_data \in FollowUpResponses :
         /\ queries_sent' =
              Append(queries_sent, build_caaml_query(larger_filter(page_filter)))
         /\ IF additional_data.kind # "none" /\ additional_data # caaml_data
            THEN /\ additional_files' = ExtractInto(additional_data, "additional_pits")
                 /\ fpc' = "merge"
            ELSE /\ fpc' = "parse"
                 /\ UNCHANGED additional_files
    /\ UNCHANGED <<page_filter, caaml_data, extracted_files, all_extracted_files,
                   qvars, svars, dvars, bvars, avars, gvars, pvars, uvars, mvars, lvars, rvars, xvars>>

\* `all_extracted_files.extend(new_files)`
MergeNewFiles ==
    /\ fpc = "merge"
    /\ all_extracted_files' =
         all_extracted_files \o new_files(all_extracted_files, additional_files)
    /\ fpc' = "parse"
    /\ UNCHANGED <<page_filter, caaml_data, extracted_files, additional_files,
                   queries_sent,
                   qvars, svars, dvars, bvars, avars, gvars, pvars, uvars, mvars, lvars, rvars, xvars>>

PaginationNext ==
    \/ FirstDownload
    \/ FollowUpDownload
    \/ MergeNewFiles

(***************************************************************************)
(* The specifications                                                       *)
(***************************************************************************)
QueryIdle ==
    /\ query_filter = [pit_name |-> None, date_start |-> NoDate, date_end |-> NoDate,
                       state |-> None, username |-> None,
                       organization_name |-> None, per_page |-> RESULTS_PER_PAGE,
                       chunk_size_days |-> CHUNK_SIZE_DAYS]
    /\ query_string = NotCalled
    /\ chunks = <<>>
    /\ manual_chunks = <<>>
    /\ q_done = {}

SessionIdle == SessionInit /\ env_credentials = TRUE

DownloadIdle ==
    /\ DownloadInit
    /\ run_filter.date_end = RunDateStart
    /\ run_filter.max_retries = MaxChunkRetries
    /\ run_filter.pit_name = None

BuilderIdle ==
    /\ renderings = <<>>
    /\ filter_given = QueryFilterDefaults

ArchiveIdle == ArchiveInit /\ archive.kind = "none"

GrainIdle == GrainInit

ParserIdle ==
    /\ document = [namespace |-> common_tag, present |-> OptionalSubtrees,
                   layers |-> <<>>, tests |-> <<>>]
    /\ ParserInit

UserIdle == UserInit /\ src_ref = <<>>

ManualIdle ==
    /\ ManualInit
    /\ entry = "download_results"
    /\ base_query_filter = [state |-> None, states |-> <<>>]

PaginationIdle ==
    /\ PaginationInit
    /\ page_filter = [QueryFilterDefaults EXCEPT !.date_start = PageDateStart,
                                                 !.date_end = PageDateStart]

(***************************************************************************)
(* The while loop of the chunk generators, one pass at a time               *)
(* (SpecChunkLoop).  QueryEngine._generate_date_chunks and                  *)
(* manual_chunking.generate_date_chunks run the same loop; QueryFilter is a *)
(* dataclass and takes any integer as chunk_size_days.  The interpreter     *)
(* keeps executing the loop, hence the weak fairness of the specification.  *)
(***************************************************************************)
MaxLoopSpan == 4
\* more chunks than any range of the model has days.  Of a list that outgrows
\* it the model keeps the first MaxLoopChunks entries, and from then on it
\* follows current_date only through the passes that move it forward: a pass
\* that does not is followed by the same pass again.
MaxLoopChunks == MaxLoopSpan + 2

Chunkers == {"_generate_date_chunks", "generate_date_chunks"}
LoopStart == <<2024, 2, 27>>
LoopEnds == {strftime(timedelta(strptime(LoopStart), k)) : k \in 0..MaxLoopSpan}
LoopSizes == (0 - 1)..MaxChunkDays

\* chunks = []; current_date = strptime(start_date); end_date_obj = strptime(end_date)
ChunkLoopInit ==
    /\ chunker \in Chunkers
    /\ loop_start = LoopStart
    /\ loop_end \in LoopEnds
    /\ loop_size \in LoopSizes
    /\ current_date = strptime(loop_start)
    /\ loop_chunks = <<>>
    /\ lpc = "while"

\* while current_date <= end_date_obj: the condition holds
LoopTest ==
    /\ lpc = "while"
    /\ current_date <= strptime(loop_end)
    /\ lpc' = "body"
    /\ UNCHANGED <<chunker, loop_start, loop_end, loop_size, current_date,
                   loop_chunks>>
    /\ UNCHANGED <<qvars, svars, dvars, bvars, avars, gvars, pvars, uvars, mvars,
                   fvars, rvars, xvars>>

\* one pass of the loop's body
LoopPass ==
    /\ lpc = "body"
    /\ lpc' = "while"
    /\ LET chunk_end == ChunkEnd(current_date, strptime(loop_end), loop_size)
           followed == Len(loop_chunks) < MaxLoopChunks
       IN /\ loop_chunks' =
                 IF followed
                 THEN Append(loop_chunks,
                             <<strftime(current_date), strftime(chunk_end)>>)
                 ELSE loop_chunks
          /\ current_date' =
                 IF followed \/ timedelta(chunk_end, 1) > current_date
                 THEN timedelta(chunk_end, 1)
                 ELSE current_date
    /\ UNCHANGED <<chunker, loop_start, loop_end, loop_size>>
    /\ UNCHANGED <<qvars, svars, dvars, bvars, avars, gvars, pvars, uvars, mvars,
                   fvars, rvars, xvars>>

\* the loop's condition is false: return chunks
LoopReturn ==
    /\ lpc = "while"
    /\ ~(current_date <= strptime(loop_end))
    /\ lpc' = "returned"
    /\ UNCHANGED <<chunker, loop_start, loop_end, loop_size, current_date,
                   loop_chunks>>
    /\ UNCHANGED <<qvars, svars, dvars, bvars, avars, gvars, pvars, uvars, mvars,
                   fvars, rvars, xvars>>

ChunkLoopNext == LoopTest \/ LoopPass \/ LoopReturn

ChunkLoopIdle ==
    /\ chunker = "_generate_date_chunks"
    /\ loop_start = LoopStart
    /\ loop_end = LoopStart
    /\ loop_size = 1
    /\ current_date = strptime(LoopStart)
    /\ loop_chunks = <<>>
    /\ lpc = "while"

(***************************************************************************)
(* The requests of one chunk of _download_chunked_dataset                   *)
(* (SpecChunkRequests): the chunk's attempt loop calls _query_caaml, which  *)
(* calls session.download_caaml_data(query_string) without a max_retries    *)
(* argument, and _make_caaml_request runs its own attempt loop.  The        *)
(* follow-up query of a full page is the matter of SpecPagination.          *)
(***************************************************************************)
MaxFilterRetries == 3

\* download_caaml_data(self, query_string, max_retries: int = 3)
default_max_retries == 3

\* what one attempt of _make_caaml_request meets: no authenticated session,
\* a downloaded archive, a 403 answer, a RequestException of a GET, or an
\* answer the method returns (None, None) on
SessionOutcomes == {"no_session", "data", "403", "RequestException", "None"}

ChunkRequestsInit ==
    /\ filter_max_retries \in 0..MaxFilterRetries
    /\ rpc = "chunk_loop"
    /\ retry_attempt = 0
    /\ session_attempt = 0
    /\ query_requests = 0
    /\ chunk_status = "pending"

\* for attempt in range(query_filter.max_retries): _query_caaml(chunk_filter)
\* builds the query and enters download_caaml_data
QueryCaaml ==
    /\ rpc = "chunk_loop"
    /\ retry_attempt < filter_max_retries
    /\ rpc' = "session_loop"
    /\ session_attempt' = 0
    /\ UNCHANGED <<filter_max_retries, retry_attempt, query_requests, chunk_status>>
    /\ UNCHANGED <<qvars, svars, dvars, bvars, avars, gvars, pvars, uvars, mvars,
                   fvars, lvars, xvars>>

\* range(query_filter.max_retries) is used up without a break
RetryLoopEnds ==
    /\ rpc = "chunk_loop"
    /\ ~(retry_attempt < filter_max_retries)
    /\ rpc' = "saved"
    /\ UNCHANGED <<filter_max_retries, retry_attempt, session_attempt,
                   query_requests, chunk_status>>
    /\ UNCHANGED <<qvars, svars, dvars, bvars, avars, gvars, pvars, uvars, mvars,
                   fvars, lvars, xvars>>

\* _query_caaml got caaml_data None: status "failed"; the chunk loop retries
\* while attempt < max_retries - 1 and gives the chunk up otherwise
ChunkFailed ==
    /\ chunk_status' = "failed"
    /\ IF retry_attempt < filter_max_retries - 1
       THEN retry_attempt' = retry_attempt + 1 /\ rpc' = "chunk_loop"
       ELSE retry_attempt' = retry_attempt /\ rpc' = "saved"

\* one attempt of the loop of _make_caaml_request(query_string, max_retries)
SessionAttempt ==
    /\ rpc = "session_loop"
    /\ session_attempt < default_max_retries
    /\ \E outcome \in SessionOutcomes, pits_found \in BOOLEAN :
        /\ query_requests' =
               IF outcome = "no_session" THEN query_requests ELSE query_requests + 1
        /\ IF outcome = "data"
           THEN /\ chunk_status' = IF pits_found THEN "success" ELSE "no_data"
                /\ rpc' = "saved"
                /\ UNCHANGED <<retry_attempt, session_attempt>>
           ELSE IF outcome # "None" /\ session_attempt < default_max_retries - 1
           THEN /\ session_attempt' = session_attempt + 1
                /\ UNCHANGED <<rpc, retry_attempt, chunk_status>>
           ELSE /\ ChunkFailed
                /\ UNCHANGED session_attempt
    /\ UNCHANGED filter_max_retries
    /\ UNCHANGED <<qvars, svars, dvars, bvars, avars, gvars, pvars, uvars, mvars,
                   fvars, lvars, xvars>>

ChunkRequestsNext == QueryCaaml \/ RetryLoopEnds \/ SessionAttempt

ChunkRequestsIdle ==
    /\ filter_max_retries = default_max_retries
    /\ rpc = "chunk_loop"
    /\ retry_attempt = 0
    /\ session_attempt = 0
    /\ query_requests = 0
    /\ chunk_status = "pending"

(***************************************************************************)
(* massive_snowpit_download.py: one chunk of main's loop over               *)
(* remaining_chunks (SpecMassive), with the one-day fallback after a failed *)
(* chunk request and the ProgressTracker.                                   *)
(***************************************************************************)
MaxMassiveDays == 3

MassiveStart == <<2024, 2, 27>>
\* download_results returns a QueryResult with one of three statuses, or raises
DownloadOutcomes == {"success", "no_data", "failed", "Exception"}

\* the tracker after load_progress found no progress file
NewProgress ==
    [completed_chunks |-> <<>>, failed_chunks |-> <<>>, total_pits_downloaded |-> 0]

chunk_start == MassiveStart
chunk_end == strftime(timedelta(strptime(MassiveStart), chunk_days - 1))
\* chunk_id = f"{chunk_start}_{chunk_end}"
chunk_id == <<chunk_start, chunk_end>>

\* ProgressTracker.mark_chunk_completed(chunk_id, pit_count)
mark_chunk_completed(p, id, pit_count) ==
    IF \E k \in 1..Len(p.completed_chunks) : p.completed_chunks[k] = id
    THEN p
    ELSE [p EXCEPT !.completed_chunks = Append(@, id),
                   !.total_pits_downloaded = @ + pit_count]

\* ProgressTracker.is_chunk_completed(chunk_id)
is_chunk_completed(p, id) ==
    \E k \in 1..Len(p.completed_chunks) : p.completed_chunks[k] = id

\* break_chunk_into_days(start_date, end_date)
break_chunk_into_days(start_date, end_date) ==
    [k \in 1..(strptime(end_date) - strptime(start_date) + 1) |->
        LET day_str == strftime(timedelta(strptime(start_date), k - 1))
        IN <<day_str, day_str>>]

RECURSIVE chunk_pit_count(_, _)
chunk_pit_count(statuses, k) ==
    IF k > Len(statuses) THEN 0
    ELSE statuses[k].pits + chunk_pit_count(statuses, k + 1)

MassiveInit ==
    /\ chunk_days \in 1..MaxMassiveDays
    /\ xpc = "chunk"
    /\ day_index = 1
    /\ day_statuses = <<>>
    /\ first_status = "pending"
    /\ massive_progress = NewProgress

\* result = engine.download_results(chunk_filter, auto_approve=True) and the
\* branch on result.status; an exception takes the same one-day fallback
ChunkDownload ==
    /\ xpc = "chunk"
    /\ ~is_chunk_completed(massive_progress, chunk_id)
    /\ \E status \in DownloadOutcomes, pit_count \in 1..MaxPits :
        /\ first_status' = status
        /\ IF status = "success"
           THEN /\ massive_progress' =
                       mark_chunk_completed(massive_progress, chunk_id, pit_count)
                /\ xpc' = "next"
           ELSE IF status = "no_data"
           THEN /\ massive_progress' =
                       mark_chunk_completed(massive_progress, chunk_id, 0)
                /\ xpc' = "next"
           ELSE /\ xpc' = "days"
                /\ UNCHANGED massive_progress
    /\ UNCHANGED <<chunk_days, day_index, day_statuses>>
    /\ UNCHANGED <<qvars, svars, dvars, bvars, avars, gvars, pvars, uvars, mvars,
                   fvars, lvars, rvars>>

\* for day_start, day_end in day_chunks: one one-day request
DayDownload ==
    /\ xpc = "days"
    /\ day_index <= Len(break_chunk_into_days(chunk_start, chunk_end))
    /\ \E status \in DownloadOutcomes, day_pit_count \in 1..MaxPits :
        day_statuses' =
            Append(day_statuses,
                   [day |-> break_chunk_into_days(chunk_start, chunk_end)[day_index][1],
                    status |-> status,
                    pits |-> IF status = "success" THEN day_pit_count ELSE 0])
    /\ day_index' = day_index + 1
    /\ UNCHANGED <<chunk_days, xpc, first_status, massive_progress>>
    /\ UNCHANGED <<qvars, svars, dvars, bvars, avars, gvars, pvars, uvars, mvars,
                   fvars, lvars, rvars>>

\* after the loop over the days: "Mark chunk as completed with whatever data
\* we got"
FallbackComplete ==
    /\ xpc = "days"
    /\ day_index > Len(break_chunk_into_days(chunk_start, chunk_end))
    /\ massive_progress' =
           mark_chunk_completed(massive_progress, chunk_id,
                                chunk_pit_count(day_statuses, 1))
    /\ xpc' = "next"
    /\ UNCHANGED <<chunk_days, day_index, day_statuses, first_status>>
    /\ UNCHANGED <<qvars, svars, dvars, bvars, avars, gvars, pvars, uvars, mvars,
                   fvars, lvars, rvars>>

MassiveNext == ChunkDownload \/ DayDownload \/ FallbackComplete

MassiveIdle ==
    /\ chunk_days = 1
    /\ xpc = "chunk"
    /\ day_index = 1
    /\ day_statuses = <<>>
    /\ first_status = "pending"
    /\ massive_progress = NewProgress

LaterIdle == ChunkLoopIdle /\ ChunkRequestsIdle /\ MassiveIdle

OtherIdle ==
    /\ GrainIdle /\ ParserIdle /\ UserIdle /\ ManualIdle /\ PaginationIdle
    /\ LaterIdle

InitQuery == QueryInit /\ SessionIdle /\ DownloadIdle /\ BuilderIdle /\ ArchiveIdle /\ OtherIdle
InitSession == SessionInit /\ QueryIdle /\ DownloadIdle /\ BuilderIdle /\ ArchiveIdle /\ OtherIdle
InitDownload == DownloadInit /\ QueryIdle /\ SessionIdle /\ BuilderIdle /\ ArchiveIdle /\ OtherIdle
InitBuilder == BuilderInit /\ SessionIdle /\ DownloadIdle /\ ArchiveIdle /\ OtherIdle
InitArchive ==
    ArchiveInit /\ QueryIdle /\ SessionIdle /\ DownloadIdle /\ BuilderIdle /\ OtherIdle

SpecQuery == InitQuery /\ [][QueryNext]_vars
SpecSession == InitSession /\ [][SessionNext]_vars
SpecDownload == InitDownload /\ [][DownloadNext]_vars
SpecBuilder == InitBuilder /\ [][BuilderNext]_vars
SpecArchive == InitArchive /\ [][ArchiveNext]_vars

InitGrain ==
    /\ GrainInit /\ QueryIdle /\ SessionIdle /\ DownloadIdle /\ BuilderIdle
    /\ ArchiveIdle /\ ParserIdle /\ UserIdle /\ ManualIdle /\ PaginationIdle
    /\ LaterIdle
InitParser ==
    /\ ParserInit /\ QueryIdle /\ SessionIdle /\ DownloadIdle /\ BuilderIdle
    /\ ArchiveIdle /\ GrainIdle /\ UserIdle /\ ManualIdle /\ PaginationIdle
    /\ LaterIdle

SpecGrain == InitGrain /\ [][GrainNext]_vars
SpecParser == InitParser /\ [][ParserNext]_vars

InitUser ==
    /\ UserInit /\ QueryIdle /\ SessionIdle /\ DownloadIdle /\ BuilderIdle
    /\ ArchiveIdle /\ GrainIdle /\ ParserIdle /\ ManualIdle /\ PaginationIdle
    /\ LaterIdle

SpecUser == InitUser /\ [][UserNext]_vars

InitManual ==
    /\ ManualInit /\ QueryIdle /\ SessionIdle /\ DownloadIdle /\ BuilderIdle
    /\ ArchiveIdle /\ GrainIdle /\ ParserIdle /\ UserIdle /\ PaginationIdle
    /\ LaterIdle
InitPagination ==
    /\ PaginationInit /\ QueryIdle /\ SessionIdle /\ DownloadIdle /\ BuilderIdle
    /\ ArchiveIdle /\ GrainIdle /\ ParserIdle /\ UserIdle /\ ManualIdle
    /\ LaterIdle

SpecManual == InitManual /\ [][ManualNext]_vars
SpecPagination == InitPagination /\ [][PaginationNext]_vars

EarlierIdle ==
    /\ QueryIdle /\ SessionIdle /\ DownloadIdle /\ BuilderIdle /\ ArchiveIdle
    /\ GrainIdle /\ ParserIdle /\ UserIdle /\ ManualIdle /\ PaginationIdle
InitChunkLoop == ChunkLoopInit /\ EarlierIdle /\ ChunkRequestsIdle /\ MassiveIdle
InitChunkRequests == ChunkRequestsInit /\ EarlierIdle /\ ChunkLoopIdle /\ MassiveIdle
InitMassive == MassiveInit /\ EarlierIdle /\ ChunkLoopIdle /\ ChunkRequestsIdle

SpecChunkLoop ==
    InitChunkLoop /\ [][ChunkLoopNext]_vars /\ WF_vars(ChunkLoopNext)
SpecChunkRequests == InitChunkRequests /\ [][ChunkRequestsNext]_vars
SpecMassive == InitMassive /\ [][MassiveNext]_vars

(***************************************************************************)
(* Properties of the query builder and the date chunking (SpecQuery)        *)
(***************************************************************************)
Built == "build_caaml_query" \in q_done /\ query_string.raised = None

\* C1: for every filter with a date_end, build_caaml_query renders
\* OBS_DATE_MAX as date_end plus one day and OBS_DATE_MIN as date_start.
C1_EndDatePlusOneDay ==
    (Built /\ query_filter.date_end # NoDate) =>
        /\ Param(query_string, "OBS_DATE_MAX")
               = strftime(timedelta(strptime(query_filter.date_end), 1))
        /\ Param(query_string, "OBS_DATE_MIN") = DateOrEmpty(query_filter.date_start)

\* the chunk list c partitions [start_date, end_date] into runs of n days,
\* the last one clipped to end_date
PartitionsRange(c, start_date, end_date, n) ==
    /\ Len(c) >= 1
    /\ \A i \in 1..Len(c) : c[i][1] \in ValidDates /\ c[i][2] \in ValidDates
    /\ c[1][1] = start_date
    /\ c[Len(c)][2] = end_date
    /\ \A i \in 1..Len(c) :
        /\ strptime(c[i][1]) <= strptime(c[i][2])
        /\ strptime(c[i][2]) <= strptime(end_date)
        /\ strptime(c[i][2]) - strptime(c[i][1]) + 1 <= n
    /\ \A i \in 1..(Len(c) - 1) :
        /\ strptime(c[i + 1][1]) = strptime(c[i][2]) + 1
        /\ strptime(c[i][2]) - strptime(c[i][1]) + 1 = n

StartNotAfterEnd ==
    /\ HasDateRange(query_filter)
    /\ strptime(query_filter.date_start) <= strptime(query_filter.date_end)

\* C2: for start <= end and chunk size n >= 1, both chunk generators return
\* an ordered list that partitions [start, end]: it begins at start, each
\* chunk begins the day after the previous one ends, every chunk but the
\* last spans exactly n days, and the last ends on end.
C2_ChunksPartitionRange ==
    StartNotAfterEnd =>
        /\ "_generate_date_chunks" \in q_done =>
               PartitionsRange(chunks, query_filter.date_start,
                               query_filter.date_end, query_filter.chunk_size_days)
        /\ "generate_date_chunks" \in q_done =>
               PartitionsRange(manual_chunks, query_filter.date_start,
                               query_filter.date_end, query_filter.chunk_size_days)

\* both generators have cut a range into several chunks, the last one clipped
C2_Witness ==
    /\ StartNotAfterEnd
    /\ {"_generate_date_chunks", "generate_date_chunks"} \subseteq q_done
    /\ Len(chunks) >= 3
    /\ manual_chunks = chunks
    /\ query_filter.chunk_size_days >= 2
    /\ chunks[Len(chunks)][1] = chunks[Len(chunks)][2]
    /\ chunks[1][1][1] < chunks[Len(chunks)][2][1]

(***************************************************************************)
(* Properties of build_caaml_query (SpecBuilder)                            *)
(***************************************************************************)
\* C11: the per_page that build_caaml_query renders never exceeds 100, and a
\* QueryFilter built with defaults has per_page 100 and renders per_page=100.
C11_PerPageAtMost100 ==
    /\ QueryFilterDefaults.per_page = 100
    /\ Built => Param(query_string, "per_page") <= 100

\* C12: a state code outside the supported set makes build_caaml_query fail
\* with an error naming the code and the supported set, returning no string;
\* a supported code renders as STATE=<code>, an unset state as an empty STATE=.
C12_StateValidated ==
    "build_caaml_query" \in q_done =>
        IF filter_given.state \in {None, ""}
        THEN query_string.raised = None /\ Param(query_string, "STATE") = ""
        ELSE IF filter_given.state \in supported_states
        THEN /\ query_string.raised = None
             /\ Param(query_string, "STATE") = filter_given.state
        ELSE /\ query_string.raised # None
             /\ query_string.state = filter_given.state
             /\ query_string.supported = supported_states
             /\ query_string.params = <<>>

\* a filter with the unsupported state code XX has been built: ValueError
C12_WitnessUnsupported ==
    /\ "build_caaml_query" \in q_done
    /\ filter_given.state = "XX"
    /\ query_string.raised = "ValueError"

\* C13 as stated: build_caaml_query leaves every field of the filter unchanged,
\* every rebuild from the same filter returns the identical string, and each
\* rendering carries the end date moved by exactly one day (never by more).
C13_PureAndRepeatable ==
    renderings # <<>> =>
        /\ query_filter = filter_given
        /\ \A i \in 1..Len(renderings) : renderings[i] = renderings[1]
        /\ (renderings[1].raised = None /\ filter_given.date_end # NoDate) =>
               \A i \in 1..Len(renderings) :
                   Param(renderings[i], "OBS_DATE_MAX")
                       = strftime(timedelta(strptime(filter_given.date_end), 1))

\* the string of ten parameters, cut at every "&" and every piece at "="
RECURSIVE SplitOn(_, _)
SplitOn(s, sep) ==
    IF \A i \in 1..Len(s) : s[i] # sep THEN <<s>>
    ELSE LET i == CHOOSE k \in 1..Len(s) :
                      s[k] = sep /\ \A j \in 1..(k - 1) : s[j] # sep
         IN <<SubSeq(s, 1, i - 1)>> \o SplitOn(SubSeq(s, i + 1, Len(s)), sep)

ParamNames ==
    <<"PIT_NAME", "STATE", "OBS_DATE_MIN", "OBS_DATE_MAX", "recent_dates",
      "USERNAME", "AFFIL", "per_page", "ADV_WHERE_QUERY", "submit">>

Unset(v) == v = None

\* C14: the returned string splits on "&" and "=" into exactly the ten
\* parameters, each once and in order; an unset optional field has an empty
\* value; no value carries a raw "&", "=" or space of a field into the string.
C14_TenEncodedParameters ==
    Built =>
        LET pieces == SplitOn(QueryText(query_string), "&")
        IN /\ Len(pieces) = Len(ParamNames)
           /\ \A i \in 1..Len(pieces) :
                LET kv == SplitOn(pieces[i], "=")
                IN /\ Len(kv) = 2
                   /\ kv[1] = <<ParamNames[i]>>
                   /\ \A j \in 1..Len(kv[2]) : kv[2][j] # " "
           /\ Unset(filter_given.pit_name) => SplitOn(pieces[1], "=")[2] = <<>>
           /\ Unset(filter_given.username) => SplitOn(pieces[6], "=")[2] = <<>>
           /\ Unset(filter_given.organization_name) =>
                  SplitOn(pieces[7], "=")[2] = <<>>

\* text holds piece as a run of consecutive characters
Contains(text, piece) ==
    \E i \in 1..(Len(text) - Len(piece) + 1) :
        SubSeq(text, i, i + Len(piece) - 1) = piece

DateText(d) == IF d = NoDate THEN <<>> ELSE <<DateString(d)>>

\* C15: build_caaml_query renders state, date_start and date_end verbatim:
\* the string holds STATE=<state>, OBS_DATE_MIN=<date_start> and
\* OBS_DATE_MAX=<date_end>, the value of OBS_DATE_MAX being the filter's date_end.
C15_DatesAndStateVerbatim ==
    Built =>
        /\ Param(query_string, "OBS_DATE_MIN") = filter_given.date_start
        /\ Param(query_string, "OBS_DATE_MAX") = filter_given.date_end
        /\ Contains(QueryText(query_string),
                    <<"&", "OBS_DATE_MIN", "=">> \o DateText(filter_given.date_start)
                        \o <<"&">>)
        /\ Contains(QueryText(query_string),
                    <<"&", "OBS_DATE_MAX", "=">> \o DateText(filter_given.date_end)
                        \o <<"&">>)
        /\ filter_given.state # None =>
               /\ Param(query_string, "STATE") = filter_given.state
               /\ Contains(QueryText(query_string),
                           <<"&", "STATE", "=">> \o Chars(filter_given.state)
                               \o <<"&">>)

\* state CO, 2024-01-01 to 2024-01-31 has been built into a query string
C15_Witness ==
    /\ Built
    /\ filter_given.state = "CO"
    /\ filter_given.date_start = <<2024, 1, 1>>
    /\ filter_given.date_end = <<2024, 1, 31>>
    /\ Param(query_string, "STATE") = "CO"
    /\ Param(query_string, "OBS_DATE_MAX") = <<2024, 1, 31>>
    /\ Contains(QueryText(query_string), <<"OBS_DATE_MAX", "=", "2024-01-31">>)

C5_KillLosesAtMostInFlight ==
    /\ (dpc \in {"chunk", "attempt"} /\ chunk_index > 1) => checkpoint = Json(progress)
    /\ dpc = "idle" => Cardinality(known_completed \ FileCompleted) <= 1

Increasing(q) == \A j \in 1..(Len(q) - 1) : q[j] < q[j + 1]

\* C6: a step adds a chunk id to failed_chunks only for the current chunk and
\* only when max_retries attempts of it were made and all of them failed, and
\* the delays slept between its attempts strictly increase.
C6_FailedOnlyAfterMaxRetries ==
    [][/\ (dpc # "load"
           /\ Range(progress'.failed_chunks) \ Range(progress.failed_chunks) # {}) =>
              /\ dpc = "attempt"
              /\ Range(progress'.failed_chunks) \ Range(progress.failed_chunks)
                     = {CurrentChunkId}
              /\ chunk_attempt + 1 = run_filter.max_retries
              /\ chunk_failures' = run_filter.max_retries
              /\ Len(chunk_sleeps') = run_filter.max_retries - 1
       /\ Increasing(chunk_sleeps')]_vars

\* a chunk has just failed for good after three attempts and two sleeps
C6_Witness ==
    /\ dpc = "save_open"
    /\ run_filter.max_retries = 3
    /\ chunk_failures = 3
    /\ chunk_sleeps = <<30, 60>>
    /\ CurrentChunkId \in Range(progress.failed_chunks)
    /\ ~IsCompleted(progress, CurrentChunkId)

\* C7: after the server answered a chunk's query "no data" (no
\* Content-Disposition header, or the sentinel filename), the chunk is in
\* completed_chunks with pit count 0, is not retried and is not in failed_chunks.
C7_NoDataChunkCompletes ==
    (no_data_reported /\ dpc \in {"attempt", "save_open"}) =>
        /\ dpc = "save_open"
        /\ IsCompleted(progress, CurrentChunkId)
        /\ CurrentChunkId \notin Range(progress.failed_chunks)
        /\ progress.chunk_results # <<>>
        /\ progress.chunk_results[Len(progress.chunk_results)]
               = ChunkInfo(CurrentChunkId, 0)

\* C17: after a chunk's downloaded archive could not be opened as a gzip tar,
\* the chunk is in failed_chunks and not in completed_chunks (and the run goes
\* on with the next chunk).
C17_CorruptArchiveFailsChunk ==
    (corrupt_reported /\ dpc = "save_open") =>
        /\ CurrentChunkId \in Range(progress.failed_chunks)
        /\ ~IsCompleted(progress, CurrentChunkId)

(***************************************************************************)
(* Properties of one _query_caaml call (SpecArchive)                        *)
(***************************************************************************)
\* the pits of the files that parse, in file order
RECURSIVE ParsedPits(_)
ParsedPits(files) ==
    IF files = <<>> THEN <<>>
    ELSE (IF Head(files).parses THEN <<Head(files).pit>> ELSE <<>>)
             \o ParsedPits(Tail(files))

BadFiles(files) == {i \in 1..Len(files) : ~files[i].parses}

\* the per-file failures a QueryResult holds: it has no field for them but
\* error_message, which names at most one error
FailuresIn(result) == IF result.error_message = None THEN 0 ELSE 1

\* C16: for an archive in which some files parse and others fail, the result
\* holds exactly the parsed pits in file order, records one failure for each
\* file that failed, and is not marked failed.
C16_PartialArchive ==
    (apc = "done" /\ archive.kind = "archive"
        /\ BadFiles(archive.files) # {}
        /\ BadFiles(archive.files) # 1..Len(archive.files)) =>
            /\ query_result.snow_pits = ParsedPits(archive.files)
            /\ query_result.total_count = Len(ParsedPits(archive.files))
            /\ query_result.status # "failed"
            /\ FailuresIn(query_result) = Cardinality(BadFiles(archive.files))

(***************************************************************************)
(* Properties of SnowPilotSession (SpecSession)                             *)
(***************************************************************************)
\* C8: after any sequence of authenticate calls, session.authenticated equals
\* the value the most recent call returned (a failed call leaves the session
\* unauthenticated).
C8_AuthenticatedIsLastResult ==
    auth_result # <<>> => authenticated = auth_result[1]

\* C9: in _make_caaml_request a 403 marks the session unauthenticated, at most
\* max_retries attempts are made, each delay slept after a 403 is longer than
\* the one before, and max_retries attempts that all got 403 return (None, None).
C9_ForbiddenRetriesBackOff ==
    /\ (spc # "idle" /\ forbidden_count > 0) => ~authenticated
    /\ attempts_made <= max_retries_arg
    /\ Increasing(retry_sleeps)
    /\ (spc = "idle" /\ max_retries_arg > 0 /\ forbidden_count = max_retries_arg)
           => request_result = None

\* C10: every HTTP request of the session was preceded by _enforce_rate_limit,
\* and two consecutive requests are at least request_delay apart.
C10_EveryRequestRateLimited ==
    http_last.kind # "none" =>
        /\ http_last.enforced
        /\ http_prev.kind # "none" => http_last.at - http_prev.at >= request_delay

\* C23: when SNOWPILOT_USER or SNOWPILOT_PASSWORD is absent, no HTTP request
\* of any kind (login POST, query GET, file GET) is issued by authenticate
\* or by _make_caaml_request, on which download_caaml_data and
\* estimate_pit_count are built: no step taken without the credentials
\* records a request.
C23_NoRequestWithoutCredentials ==
    [][~env_credentials => UNCHANGED <<http_last, http_prev>>]_vars

\* without credentials an authenticate call and a _make_caaml_request call
\* with at least one attempt have returned, and no request was ever sent
C23_WitnessCallsWithoutCredentials ==
    /\ ~env_credentials
    /\ spc = "idle"
    /\ auth_result = <<FALSE>>
    /\ attempts_made > 0
    /\ request_result = None
    /\ http_last = NoRequest

\* C24: an authentication failure (missing credentials or a rejected login)
\* is surfaced immediately and never retried: the pass of
\* _make_caaml_request in which no session is created ends the call with
\* (None, None), and without credentials no delay is slept.
C24_AuthFailureNotRetried ==
    [][(spc = "create_session" /\ spc' # "query") =>
           /\ spc' = "idle"
           /\ request_result' = None
           /\ ~env_credentials => now' = now]_vars

\* C26: after a successful login the session stays authenticated and is
\* reused: a data request on an authenticated session sends no further
\* login POST.
C26_AuthenticatedSessionReused ==
    [][(authenticated /\ spc = "create_session") => UNCHANGED http_last]_vars

\* the call returns (None, None) from the response handling: no retry, no
\* delay, no further request
ReturnsNoData ==
    /\ spc' = "idle"
    /\ request_result' = None
    /\ attempt' = attempt
    /\ now' = now
    /\ UNCHANGED <<http_last, http_prev>>

\* the archive GET is sent only from the position that the handling of a
\* 200 response with a valid filename leads to
FileGetOnlyAfterValidResponse ==
    /\ (http_last'.kind = "file" /\ http_last' # http_last) => spc = "file"
    /\ (spc' = "file" /\ spc # "file") =>
           /\ spc = "response"
           /\ query_response.status = "200"
           /\ query_response.cd = "valid"

\* C27 as stated: the archive GET is issued only after a 200 query response
\* whose Content-Disposition header holds a non-sentinel filename, and every
\* response with no Content-Disposition header or with the sentinel
\* filename returns (None, None) with no file GET and no retry.
C27_NoDataNeverRetried ==
    [][/\ FileGetOnlyAfterValidResponse
       /\ (spc = "response" /\ query_response.cd \in {"absent", "sentinel"})
              => ReturnsNoData]_vars

\* C27, amended: the same, for every such response whose status is not
\* 403; a 403 response is retried whatever its headers hold.
C27_NoDataUnlessForbidden ==
    [][/\ FileGetOnlyAfterValidResponse
       /\ (/\ spc = "response"
           /\ query_response.cd \in {"absent", "sentinel"}
           /\ query_response.status # "403") => ReturnsNoData]_vars

\* a call with attempts to spare has returned (None, None) straight after
\* its first query GET, which was not a 403
C27_WitnessNoData ==
    /\ spc = "idle"
    /\ request_result = None
    /\ max_retries_arg > 1
    /\ attempts_made = 1
    /\ forbidden_count = 0
    /\ http_last.kind = "query"

(***************************************************************************)
(* Properties of caaml_parser (SpecParser)                                  *)
(***************************************************************************)
\* the optional subtrees the document lacks
Removed == OptionalSubtrees \ document.present

\* the complete document with the same layer elements
CompleteDocument ==
    [namespace |-> document.namespace, present |-> OptionalSubtrees,
     layers |-> document.layers, tests |-> document.tests]

\* the SnowPit p with the fields that subtree s feeds back at None/empty
WithoutSubtree(p, s) ==
    CASE s = "srcRef" -> [p EXCEPT !.user = SnowPit.user]
      [] s = "weatherCond" -> [p EXCEPT !.snowProfile.weatherConditions = <<>>]
      [] s = "surfCond" -> [p EXCEPT !.snowProfile.surfCond = <<>>]
      [] s = "stratProfile" -> [p EXCEPT !.snowProfile.layers = <<>>,
                                         !.snowProfile.layer_of_concern = <<>>]
      [] s = "tempProfile" -> [p EXCEPT !.snowProfile.tempProfile = <<>>]
      [] s = "densityProfile" -> [p EXCEPT !.snowProfile.densityProfile = <<>>]
      [] s = "stbTests" -> [p EXCEPT !.stabilityTests = <<>>]
      [] s = "customData" ->
             [p EXCEPT !.wumphData = <<>>,
                       !.snowProfile.surfCond =
                           <<[p.snowProfile.surfCond[1] EXCEPT !.windLoading = None]>>]
      [] OTHER -> p

\* C18: for each optional subtree, parsing the document with that subtree
\* removed returns a SnowPit without raising, in which only the fields fed
\* by that subtree are None/empty and all others equal the parse of the
\* complete document.
C18_OptionalSubtreeRemoved ==
    (/\ ppc \in {"returned", "raised"}
     /\ document.namespace = common_tag
     /\ Removed # {}) =>
        /\ ppc = "returned"
        /\ \A s \in Removed :
               pit = WithoutSubtree(caaml_parser(CompleteDocument).pit, s)

\* the call is past the `for layer in layers` loop
LayersAdded ==
    \/ ppc = "layers" /\ layer_index > Len(document.layers)
    \/ ppc \in {"tests", "custom", "returned"}

\* the positions of the layer elements flagged as layer of concern
Flagged == {i \in 1..Len(document.layers) : document.layers[i].layerOfConcern = "true"}

LastFlagged == CHOOSE i \in Flagged : \A j \in Flagged : j <= i

\* C19: after all layers of a document have been added, the layers list
\* holds one Layer per source layer in document order; if any layer is
\* flagged as layer of concern, profile.layer_of_concern is that same Layer
\* object (the last flagged one), and it is None only when none is flagged.
C19_LayersAndLayerOfConcern ==
    LayersAdded =>
        LET layers == pit.snowProfile.layers IN
        /\ Len(layers) = Len(document.layers)
        /\ \A i \in 1..Len(layers) :
               /\ layers[i].id = i
               /\ layers[i].grainFormPrimary.grainForm
                      = document.layers[i].grainFormPrimary
        /\ pit.snowProfile.layer_of_concern
               = IF Flagged = {} THEN <<>> ELSE <<layers[LastFlagged]>>

\* the document holds a stability test without a child element
HasChildlessTest ==
    \E i \in 1..Len(document.tests) : ~document.tests[i].has_child

\* C31: a stability test without a child element causes only that test to be
\* skipped: the call still returns a SnowPit, which holds every test that has
\* a child, and the custom data is parsed.
C31_ChildlessTestSkipped ==
    (/\ ppc \in {"returned", "raised"}
     /\ document.namespace = common_tag
     /\ document.present = OptionalSubtrees
     /\ HasChildlessTest) =>
        /\ ppc = "returned"
        /\ Len(pit.stabilityTests) =
              Cardinality({i \in 1..Len(document.tests) : document.tests[i].has_child})
        /\ pit.wumphData # <<>>

\* the same document declaring the v6.0.3 namespace
SameInCurrentNamespace == [document EXCEPT !.namespace = common_tag]

\* C22: parsing two documents with identical content that differ only in
\* the CAAML namespace URI (v5.0 versus v6.0.3) yields identical values for
\* every parsed field other than the recorded caaml version.
C22_NamespaceIndependent ==
    (ppc \in {"returned", "raised"} /\ document.namespace # common_tag) =>
        LET other == caaml_parser(SameInCurrentNamespace) IN
        /\ raised = other.raised
        /\ [pit EXCEPT !.caamlVersion = other.pit.caamlVersion] = other.pit

(***************************************************************************)
(* Properties of Grain (SpecGrain)                                          *)
(***************************************************************************)
\* C20: after any sequence of set_grainForm calls on one Grain, the basic
\* class is the first two characters of the latest code c, and the sub
\* class is the full code c when len(c) > 2 and None when len(c) <= 2.
C20_GrainClassesFollowLatestCode ==
    grain_history # <<>> =>
        LET c == grain_history[Len(grain_history)] IN
        /\ grain.basicGrainClass_code = SubSeq(c, 1, 2)
        /\ grain.subGrainClass_code = IF Len(c) > 2 THEN c ELSE NoCode

(***************************************************************************)
(* Properties of the user section (SpecUser)                                *)
(***************************************************************************)
HasOperation == \E i \in 1..Len(src_ref) : src_ref[i].tag = "Operation"

\* C21: after parsing, the user's professional flag is true if and only if
\* an Operation element exists under the document's srcRef block; a
\* document with only a Person element yields professional = False.
C21_ProfessionalIffOperation ==
    upc = "done" => (user.professional = TRUE <=> HasOperation)

\* a srcRef block with only a Person element has been parsed
C21_WitnessPersonOnly ==
    /\ upc = "done"
    /\ Len(src_ref) = 1
    /\ src_ref[1].tag = "Person"
    /\ user.professional = FALSE
    /\ user.username = "katisthebatis"

(***************************************************************************)
(* Properties of download_results and download_chunks_with_delay            *)
(* (SpecManual)                                                             *)
(***************************************************************************)
\* C25: once an unsupported region code has been detected, no further chunk
\* or state is attempted (no download_results call, no pass of a state loop)
\* and no inter-chunk delay is slept.
C25_UnsupportedRegionAborts ==
    [][unsupported_detected =>
          /\ delays_slept' = delays_slept
          /\ mpc' \notin {"download_results", "estimate", "states"}]_vars

(***************************************************************************)
(* Properties of the pagination follow-up of _query_caaml (SpecPagination)  *)
(***************************************************************************)
FollowUpIssued == Len(queries_sent) = 2

\* the parameters that say which chunk a query asks for
ChunkKeys == {"PIT_NAME", "STATE", "OBS_DATE_MIN", "OBS_DATE_MAX", "USERNAME", "AFFIL"}

\* C28: the follow-up request is issued exactly when the first response
\* extracts exactly per_page files, and it is the first query again (same date
\* range, pit name, state, username, organization) with the page size at the
\* maximum.
C28_FollowUpIsSameChunkQuery ==
    /\ fpc \in {"merge", "parse"} =>
          (FollowUpIssued <=> Len(extracted_files) = page_filter.per_page)
    /\ FollowUpIssued =>
          /\ \A key \in ChunkKeys :
                Param(queries_sent[2], key) = Param(queries_sent[1], key)
          /\ Param(queries_sent[2], "per_page") = RESULTS_PER_PAGE

Count(files, id) == Cardinality({i \in 1..Len(files) : pit_id(files[i]) = id})

\* C29: after the follow-up the merged list is the files of the first response
\* followed by exactly the follow-up files whose pit id was not in the first
\* response, and no pit id of the first response appears once more.
C29_MergedFilesDeduplicated ==
    (fpc = "parse" /\ FollowUpIssued) =>
        /\ all_extracted_files =
              extracted_files \o
                SelectSeq(additional_files,
                          LAMBDA f : \A i \in 1..Len(extracted_files) :
                                        \/ pit_id(f) = IndexError
                                        \/ pit_id(f) # pit_id(extracted_files[i]))
        /\ \A id \in PitIds :
              Count(extracted_files, id) > 0 =>
                  Count(all_extracted_files, id) = Count(extracted_files, id)

C29_WitnessMerged ==
    /\ fpc = "parse"
    /\ FollowUpIssued
    /\ Len(all_extracted_files) > Len(extracted_files)
    /\ \E i \in 1..Len(additional_files) :
          pit_id(additional_files[i]) \in existing_ids(extracted_files)

\* C30: for a single-day chunk the follow-up request is never issued.
C30_NoFollowUpForSingleDay ==
    page_filter.date_start = page_filter.date_end => ~FollowUpIssued


(***************************************************************************)
(* Properties of the chunked download over several runs and states          *)
(* (SpecDownload)                                                           *)
(***************************************************************************)
\* the running call is for a state no earlier call was for
FirstRunOfState == \A k \in 1..(runs - 1) : run_states[k] # run_states[runs]

\* every call so far was for the same state: the same query, run again
SameQueryRerun == \A k \in 1..runs : run_states[k] = run_states[runs]

\* C32: in a multi-state chunked download from an empty checkpoint every
\* (state, chunk) pair is queried: when the call for a state returns, every
\* chunk of the range has been queried for that state, whatever the calls for
\* the other states completed.
C32_EveryStateChunkQueried ==
    (dpc = "finalize" /\ run_filter.max_retries > 0 /\ FirstRunOfState) =>
        queried = AllChunkIds

RECURSIVE SumPitsCount(_)
SumPitsCount(results) ==
    IF results = <<>> THEN 0
    ELSE Head(results).pits_count + SumPitsCount(Tail(results))

\* the chunk_results entries of the range's completed chunks
CompletedResults(p) ==
    SelectSeq(p.chunk_results,
              LAMBDA r : r.chunk_id \in AllChunkIds \cap Range(p.completed_chunks))

\* C33: the QueryResult a chunked download returns holds the pits of every
\* completed chunk of the range, those completed in an earlier run included:
\* its total_count is the sum of the pit counts of all completed chunks.
C33_ResultHoldsAllCompletedChunks ==
    (dpc = "finalize" /\ SameQueryRerun) =>
        all_pits = SumPitsCount(CompletedResults(progress))

\* a tracker in which no chunk id is both completed and failed
Disjoint(p) == Range(p.completed_chunks) \cap Range(p.failed_chunks) = {}

\* C34: after any sequence of runs over one checkpoint, no chunk id is in
\* both completed_chunks and failed_chunks, in memory or in the file.
C34_CompletedAndFailedDisjoint ==
    /\ Disjoint(progress)
    /\ checkpoint.state = "json" => Disjoint(checkpoint.data)

\* C35: the query filter of each chunk carries the caller's pit_name, state,
\* username, organization_name and per_page; only the dates are the chunk's.
C35_ChunkFilterKeepsFields ==
    dpc = "attempt" =>
        /\ chunk_filter.pit_name = run_filter.pit_name
        /\ chunk_filter.state = run_states[runs]
        /\ chunk_filter.username = run_filter.username
        /\ chunk_filter.organization_name = run_filter.organization_name
        /\ chunk_filter.per_page = run_filter.per_page
        /\ <<chunk_filter.date_start, chunk_filter.date_end>> = CurrentChunkId

\* C36: when _download_chunked_dataset returns, every chunk of the range is
\* in completed_chunks or in failed_chunks, for any max_retries >= 0.
C36_EveryChunkRecorded ==
    dpc = "finalize" =>
        AllChunkIds \subseteq
            Range(progress.completed_chunks) \cup Range(progress.failed_chunks)

\* a tracker whose counters agree with its chunk_results
Consistent(p) ==
    /\ p.total_pits = SumPitsCount(p.chunk_results)
    /\ \A i, j \in 1..Len(p.completed_chunks) :
          p.completed_chunks[i] = p.completed_chunks[j] => i = j
    /\ \A id \in Range(p.completed_chunks) :
          Cardinality({i \in 1..Len(p.chunk_results) :
                          p.chunk_results[i].chunk_id = id}) = 1

\* C39: after any sequence of runs from an empty checkpoint, total_pits is
\* the sum of pits_count over chunk_results, and completed_chunks holds each
\* chunk id at most once, with exactly one chunk_results entry for it.
C39_TrackerConsistent ==
    /\ Consistent(progress)
    /\ checkpoint.state = "json" => Consistent(checkpoint.data)

\* a second run has added to the chunks a first run completed, with pits and
\* without
C39_WitnessTwoRuns ==
    /\ runs = 2
    /\ loaded_completed # {}
    /\ Len(progress.completed_chunks) > Cardinality(loaded_completed)
    /\ progress.total_pits > 0
    /\ \E i \in 1..Len(progress.chunk_results) :
          progress.chunk_results[i].pits_count = 0

(***************************************************************************)
(* Properties of the chunk generators' loop (SpecChunkLoop)                 *)
(***************************************************************************)
\* C37: for every start_date <= end_date and every integer chunk_size_days
\* a QueryFilter takes, zero and negative ones included, _generate_date_chunks
\* and generate_date_chunks terminate and return their list.
C37_ChunkGeneratorsTerminate == <>(lpc = "returned")

(***************************************************************************)
(* Properties of the requests of one chunk (SpecChunkRequests)              *)
(***************************************************************************)
\* C38: the CAAML query requests issued for one chunk number at most the
\* filter's max_retries, the session's retries included.
C38_RequestsBoundedByMaxRetries == query_requests <= filter_max_retries

(***************************************************************************)
(* Properties of the massive download script (SpecMassive)                  *)
(***************************************************************************)
Retrieved(status) == status \in {"success", "no_data"}

\* C40: a chunk id is in completed_chunks only if every day of the chunk's
\* range was retrieved with status success or no_data, by the chunk's request
\* or by its one-day fallback requests.
C40_CompletedOnlyIfEveryDayRetrieved ==
    is_chunk_completed(massive_progress, chunk_id) =>
        \/ Retrieved(first_status)
        \/ /\ Len(day_statuses) = chunk_days
           /\ \A k \in 1..Len(day_statuses) : Retrieved(day_statuses[k].status)

====
